---- MODULE Spec2Model ----
(***************************************************************************)
(* Difficulty retargeting and proof validation of XEP-Core (src/pow.cpp):  *)
(* GetNextWorkRequired, WeightedTargetExponentialMovingAverage,            *)
(* AverageTargetASERT and CheckProofOfWork over a block index tree.        *)
(*                                                                         *)
(* arith_uint256 / arith_uint512 values are little-endian sequences of     *)
(* base-256 limbs without leading zero limbs (the empty sequence is 0), so *)
(* that the 256-bit and 512-bit arithmetic of the code is computed at its  *)
(* real width.                                                             *)
(***************************************************************************)
EXTENDS Integers, Sequences, FiniteSets, TLC

(***************************************************************************)
(* base_uint<BITS> arithmetic (arith_uint256.h / arith_uint256.cpp)        *)
(***************************************************************************)
LimbBase == 2^8
W256 == 256 \div 8
W512 == 512 \div 8

Max2(a, b) == IF a >= b THEN a ELSE b
Min2(a, b) == IF a <= b THEN a ELSE b

RECURSIVE TopNZ(_, _)
TopNZ(s, i) == IF i = 0 THEN 0 ELSE IF s[i] # 0 THEN i ELSE TopNZ(s, i - 1)

Strip(s) == SubSeq(s, 1, TopNZ(s, Len(s)))

Limb(a, i) == IF i >= 1 /\ i <= Len(a) THEN a[i] ELSE 0

\* Carry propagation over the raw limbs x[1..n], keeping the low w limbs.
RECURSIVE Carry(_, _, _, _, _, _)
Carry(x, n, w, i, c, acc) ==
    IF Len(acc) >= w \/ (c = 0 /\ i > n) THEN acc
    ELSE LET v == (IF i <= n THEN x[i] ELSE 0) + c
         IN  Carry(x, n, w, i + 1, v \div LimbBase, Append(acc, v % LimbBase))

Norm(x, n, w) == Strip(Carry(x, n, w, 1, 0, <<>>))

BnFromInt(n) == Norm(<<n>>, 1, W512)

RECURSIVE BnToIntFrom(_, _)
BnToIntFrom(a, i) == IF i > Len(a) THEN 0 ELSE a[i] + LimbBase * BnToIntFrom(a, i + 1)
\* GetLow64 of a value known to fit three limbs
BnToInt(a) == BnToIntFrom(a, 1)

BnIsZero(a) == Len(a) = 0

RECURSIVE CmpFrom(_, _, _)
CmpFrom(a, b, i) ==
    IF i = 0 THEN 0
    ELSE IF a[i] # b[i] THEN (IF a[i] < b[i] THEN -1 ELSE 1)
    ELSE CmpFrom(a, b, i - 1)

BnCmp(a, b) ==
    IF Len(a) # Len(b) THEN (IF Len(a) < Len(b) THEN -1 ELSE 1)
    ELSE CmpFrom(a, b, Len(a))

BnGt(a, b) == BnCmp(a, b) = 1
BnLeq(a, b) == BnCmp(a, b) # 1

BnAdd(a, b, w) ==
    LET n == Max2(Len(a), Len(b))
    IN  Norm([i \in 1..n |-> Limb(a, i) + Limb(b, i)], n, w)

\* a - b for a >= b
BnSub(a, b) ==
    LET n == Len(a)
    IN  Strip(Carry([i \in 1..n |-> a[i] + (LimbBase - 1) - Limb(b, i)], n, n, 1, 1, <<>>))

BnMulSmall(a, k, w) == Norm([i \in 1..Len(a) |-> a[i] * k], Len(a), w)

RECURSIVE ConvSum(_, _, _, _, _)
ConvSum(a, b, k, i, hi) ==
    IF i > hi THEN 0 ELSE a[i] * b[k + 1 - i] + ConvSum(a, b, k, i + 1, hi)

BnMul(a, b, w) ==
    IF Len(a) = 0 \/ Len(b) = 0 THEN <<>>
    ELSE LET n == Min2(Len(a) + Len(b) - 1, w)
         IN  Norm([k \in 1..n |-> ConvSum(a, b, k, Max2(1, k + 1 - Len(b)), Min2(k, Len(a)))], n, w)

BnShl(a, s, w) ==
    LET q == s \div 8
        r == s % 8
    IN  IF q >= w THEN <<>>
        ELSE LET n == Min2(Len(a) + q, w)
             IN  Norm([i \in 1..n |-> IF i <= q THEN 0 ELSE a[i - q] * 2^r], n, w)

BnShr(a, s) ==
    LET q == s \div 8
        r == s % 8
        n == Len(a) - q
    IN  IF n <= 0 THEN <<>>
        ELSE Strip([i \in 1..n |-> (a[i + q] \div 2^r) + (Limb(a, i + q + 1) % 2^r) * 2^(8 - r)])

RECURSIVE BitLen(_)
BitLen(v) == IF v = 0 THEN 0 ELSE 1 + BitLen(v \div 2)

BnBits(a) == IF Len(a) = 0 THEN 0 ELSE 8 * (Len(a) - 1) + BitLen(a[Len(a)])

\* a / k for a small divisor 0 < k < 2^22, most significant limb first
RECURSIVE DivSmallFrom(_, _, _, _, _)
DivSmallFrom(a, k, i, r, acc) ==
    IF i = 0 \/ r < 0 \/ Len(acc) < 0 THEN acc
    ELSE LET v == r * LimbBase + a[i]
         IN  DivSmallFrom(a, k, i - 1, v % k, <<v \div k>> \o acc)

BnDivSmall(a, k) == Strip(DivSmallFrom(a, k, Len(a), 0, <<>>))

\* Schoolbook long division, one base-256 quotient limb at a time: the limb
\* is estimated from below on the leading limbs and corrected by subtraction.
RECURSIVE DivFix(_, _, _)
DivFix(rem, b, q) ==
    IF BnCmp(rem, b) = -1 THEN <<q, rem>> ELSE DivFix(BnSub(rem, b), b, q + 1)

DivDigit(r1, b) ==
    LET n == Len(b)
    IN  IF Len(r1) < n THEN <<0, r1>>
        ELSE LET bt == IF n = 1 THEN b[1] ELSE b[n] * LimbBase + b[n - 1] + 1
                 rt == IF n = 1 THEN Limb(r1, 2) * LimbBase + r1[1]
                       ELSE (Limb(r1, n + 1) * LimbBase + r1[n]) * LimbBase + r1[n - 1]
                 qlo == rt \div bt
             IN  DivFix(BnSub(r1, BnMulSmall(b, qlo, W512 + 1)), b, qlo)

RECURSIVE DivFrom(_, _, _, _, _)
DivFrom(a, b, i, rem, acc) ==
    IF i = 0 \/ Len(rem) < 0 \/ Len(acc) < 0 THEN acc
    ELSE LET d == DivDigit(Strip(<<a[i]>> \o rem), b)
         IN  DivFrom(a, b, i - 1, d[2], <<d[1]>> \o acc)

\* floor(a / b) for b # 0 (base_uint::operator/=)
BnDiv(a, b) ==
    IF BnCmp(a, b) = -1 THEN <<>>
    ELSE Strip(DivFrom(a, b, Len(a), <<>>, <<>>))

\* Bounded iteration of a loop body to its exit: Step leaves a finished state
\* unchanged and n is at least the number of iterations the loop can make.
RECURSIVE Fix(_, _, _)
Fix(Step(_), s, n) ==
    IF n <= 1 THEN Step(s)
    ELSE LET m == Fix(Step, s, n \div 2)
         IN  IF Step(m) = m THEN m ELSE Fix(Step, m, n - n \div 2)

Loop(Step(_), s, n) == IF Step(s) = s THEN s ELSE Fix(Step, s, n)

(***************************************************************************)
(* uint32_t values are carried as the integer of the same 32-bit pattern   *)
(* (values from 2^31 on as their two's-complement representative), so the  *)
(* byte fields below are those of the unsigned value.                      *)
(***************************************************************************)
CompactSize(nCompact) == (nCompact \div 2^24) % 256
CompactWord(nCompact) == nCompact % 2^23
CompactSign(nCompact) == (nCompact \div 2^23) % 2

\* arith_uint256::SetCompactBase256(nCompact, &fNegative, &fOverflow)
SetCompactBase256(nCompact) ==
    LET nSize == CompactSize(nCompact)
        nWord == CompactWord(nCompact)
    IN  [value |-> IF nSize <= 3 THEN BnFromInt(nWord \div 2^(8 * (3 - nSize)))
                   ELSE BnShl(BnFromInt(nWord), 8 * (nSize - 3), W256),
         fNegative |-> nWord # 0 /\ CompactSign(nCompact) # 0,
         fOverflow |-> nWord # 0 /\ (nSize > 34 \/ (nWord > 255 /\ nSize > 33)
                                     \/ (nWord > 65535 /\ nSize > 32))]

DecodeCompact(nCompact) == SetCompactBase256(nCompact).value

\* the sign bit of the mantissa is kept clear by moving to the next size
CompactNormalise(nSize, nMant) ==
    IF nMant >= 2^23 THEN (nSize + 1) * 2^24 + nMant \div 256
    ELSE nSize * 2^24 + nMant

\* arith_uint256::GetCompactBase256(): the mantissa is truncated
GetCompactBase256(bn) ==
    LET nSize == (BnBits(bn) + 7) \div 8
    IN  IF nSize <= 3 THEN CompactNormalise(nSize, BnToInt(bn) * 2^(8 * (3 - nSize)))
        ELSE CompactNormalise(nSize, BnToInt(BnShr(bn, 8 * (nSize - 3))))

\* arith_uint256::GetCompactRoundedBase256(): the mantissa is rounded on the
\* first discarded byte
GetCompactRoundedBase256(bn) ==
    LET nSize == (BnBits(bn) + 7) \div 8
    IN  IF nSize <= 3 THEN CompactNormalise(nSize, BnToInt(bn) * 2^(8 * (3 - nSize)))
        ELSE LET nMant == BnToInt(BnShr(bn, 8 * (nSize - 3)))
                          + (IF Limb(bn, nSize - 3) >= 128 THEN 1 ELSE 0)
             IN  IF nMant >= 2^24 THEN CompactNormalise(nSize + 1, nMant \div 256)
                 ELSE CompactNormalise(nSize, nMant)

\* arith_uint512::trim256(): the low 256 bits
trim256(bn) == Strip(SubSeq(bn, 1, Min2(Len(bn), W256)))

(***************************************************************************)
(* CBlockHeader (src/primitives/block.h)                                   *)
(***************************************************************************)
FIRST_FORK_VERSION == 5
ALGO_POS == 0
ALGO_POW_SHA256 == 1
ALGO_COUNT == 2
VERSION_ALGO_POS == 2^29
VERSION_ALGO_POW_SHA256 == 2^30

\* nVersion & VERSION_ALGO_MASK, as the three flag bits
AlgoFlagBits(nVersion) == (nVersion \div 2^29) % 8

GetAlgoType(nVersion) ==
    IF AlgoFlagBits(nVersion) = 1 THEN ALGO_POS
    ELSE IF AlgoFlagBits(nVersion) = 2 THEN ALGO_POW_SHA256
    ELSE -1

\* unsigned comparison nVersion < FIRST_FORK_VERSION
BeforeFirstFork(nVersion) == nVersion >= 0 /\ nVersion < FIRST_FORK_VERSION

IsProofOfStake(h) ==
    AlgoFlagBits(h.nVersion) = 1 \/ (BeforeFirstFork(h.nVersion) /\ h.nNonce = 0)

IsProofOfWork(h) ==
    AlgoFlagBits(h.nVersion) \div 2 # 0 \/ (BeforeFirstFork(h.nVersion) /\ h.nNonce # 0)

(***************************************************************************)
(* Consensus::Params of the networks (src/chainparams.cpp)                 *)
(***************************************************************************)
MainPowLimit == BnShl(BnFromInt(65535), 216, W256)
SigNetPowLimit == BnShl(BnFromInt(227246), 216, W256)
RegTestPowLimit == BnShl(BnFromInt(8388607), 232, W256)

GenesisTime == 1609246800

CMainParams ==
    [powLimit |-> <<MainPowLimit, MainPowLimit>>,
     nPowTargetTimespan |-> 12 * 60 * 60,
     nPowTargetSpacing |-> 80,
     nStakeTimestampMask |-> 15,
     nStakeMinDepth |-> 600,
     nStakeMinAge |-> 12 * 60 * 60,
     fPowAllowMinDifficultyBlocks |-> TRUE,
     fPowNoRetargeting |-> FALSE]

SigNetParams ==
    [powLimit |-> <<MainPowLimit, SigNetPowLimit>>,
     nPowTargetTimespan |-> 12 * 60 * 60,
     nPowTargetSpacing |-> 80,
     nStakeTimestampMask |-> 15,
     nStakeMinDepth |-> 600,
     nStakeMinAge |-> 12 * 60 * 60,
     fPowAllowMinDifficultyBlocks |-> TRUE,
     fPowNoRetargeting |-> FALSE]

CRegTestParams ==
    [powLimit |-> <<RegTestPowLimit, RegTestPowLimit>>,
     nPowTargetTimespan |-> 1 * 60 * 60,
     nPowTargetSpacing |-> 80,
     nStakeTimestampMask |-> 3,
     nStakeMinDepth |-> 0,
     nStakeMinAge |-> 1 * 60,
     fPowAllowMinDifficultyBlocks |-> TRUE,
     fPowNoRetargeting |-> TRUE]

Params(n) ==
    IF n = "main" THEN CMainParams
    ELSE IF n = "signet" THEN SigNetParams
    ELSE CRegTestParams

\* params.powLimit[i] for an index inside the array
PowLimit(params, i) == params.powLimit[i + 1]

(***************************************************************************)
(* State: the block index tree (CBlockIndex entries, 0 is the null         *)
(* pointer), the network, the function-local statics of AverageTargetASERT *)
(* the blocks still to be produced by the environment (script), the        *)
(* record of the calls made from outside the miner (calls), the thread     *)
(* that holds the mutex cs_target_cache (0: none) and the position and     *)
(* locals of each thread inside AverageTargetASERT (threads).              *)
(***************************************************************************)
VARIABLES chain, net, pindexReferenceBlocks, refBlockTargetCache,
          nTargetCacheHeight, nTargetCacheAlgo, script, calls,
          cs_target_cache, threads

vars == <<chain, net, pindexReferenceBlocks, refBlockTargetCache,
          nTargetCacheHeight, nTargetCacheAlgo, script, calls,
          cs_target_cache, threads>>

\* CBlockIndex::GetBlockTime, CBlockIndex::IsProofOfStake
GetBlockTime(p) == chain[p].nTime
IndexIsProofOfStake(p) == IsProofOfStake(chain[p])
IndexAlgo(p) == GetAlgoType(chain[p].nVersion)

(***************************************************************************)
(* src/pow.cpp                                                             *)
(***************************************************************************)
GetLastBlockIndex(pindex, fProofOfStake) ==
    Loop(LAMBDA p : IF p # 0 /\ IndexIsProofOfStake(p) # fProofOfStake /\ chain[p].pprev # 0
                    THEN chain[p].pprev ELSE p,
         pindex, Len(chain))

GetLastBlockIndexForAlgo(pindex, algo) ==
    Loop(LAMBDA p : IF p # 0 /\ IndexAlgo(p) # algo /\ chain[p].pprev # 0
                    THEN chain[p].pprev ELSE p,
         pindex, Len(chain))

GetASERTReferenceBlockForAlgo(pindex, nASERTStartHeight, algo) ==
    IF pindex = 0 THEN pindex
    ELSE Loop(LAMBDA p : IF chain[p].nHeight >= nASERTStartHeight
                            /\ GetLastBlockIndexForAlgo(chain[p].pprev, algo) # 0
                         THEN GetLastBlockIndexForAlgo(chain[p].pprev, algo) ELSE p,
              pindex, Len(chain))

\* fAlgoMissing ? GetLastBlockIndex(p, fProofOfStake) : GetLastBlockIndexForAlgo(p, algo)
LastOfTrack(pindex, pblock) ==
    IF GetAlgoType(pblock.nVersion) = -1 THEN GetLastBlockIndex(pindex, IsProofOfStake(pblock))
    ELSE GetLastBlockIndexForAlgo(pindex, GetAlgoType(pblock.nVersion))

\* fAlgoMissing ? (fProofOfStake ? ALGO_POS : ALGO_POW_SHA256) : algo
TrackIndex(pblock) ==
    IF GetAlgoType(pblock.nVersion) = -1
    THEN (IF IsProofOfStake(pblock) THEN ALGO_POS ELSE ALGO_POW_SHA256)
    ELSE GetAlgoType(pblock.nVersion)

\* nTargetSpacing of the retarget functions
TargetSpacing(pblock, params) ==
    IF ~IsProofOfStake(pblock) THEN 10 * 60 ELSE params.nPowTargetSpacing

\* C++ integer division truncates toward zero
TruncDiv(a, b) == IF a >= 0 THEN a \div b ELSE -((-a) \div b)

\* variant of the closing clamp that never substitutes the ceiling
ClampedCompactUnclamped(bnNew512, bnPowLimit) ==
    GetCompactRoundedBase256(trim256(bnNew512))

\* the closing clamp of both retarget functions
ClampedCompact(bnNew512, bnPowLimit) ==
    IF BnGt(bnNew512, bnPowLimit) \/ BnIsZero(trim256(bnNew512))
    THEN GetCompactBase256(bnPowLimit)
    ELSE GetCompactRoundedBase256(trim256(bnNew512))

\* arith_uint512(bnNew) * numerator / denominator; base_uint division throws
\* uint_error on a zero divisor
MulDiv512(bnNew, numerator, denominator) ==
    IF BnIsZero(denominator) THEN [fThrow |-> TRUE, value |-> <<>>]
    ELSE [fThrow |-> FALSE, value |-> BnDiv(BnMul(bnNew, numerator, W512), denominator)]

\* variant of the numerator with the floor 0 in place of 1
WTEMANumeratorFromZero(nInterval, nTargetSpacing, nActualSpacing) ==
    Max2((nInterval - 1) * nTargetSpacing + nActualSpacing, 0)

\* std::max((nInterval - 1) * nTargetSpacing + nActualSpacing, 1)
WTEMANumerator(nInterval, nTargetSpacing, nActualSpacing) ==
    Max2((nInterval - 1) * nTargetSpacing + nActualSpacing, 1)

WeightedTargetExponentialMovingAverage(pindexLast, pblock, params) ==
    LET bnPowLimit == PowLimit(params, TrackIndex(pblock))
        nProofOfWorkLimit == GetCompactBase256(bnPowLimit)
        pindexPrev == LastOfTrack(pindexLast, pblock)
        pindexPrevPrev == LastOfTrack(chain[pindexPrev].pprev, pblock)
        nActualSpacing == GetBlockTime(pindexPrev) - GetBlockTime(pindexPrevPrev)
        bnNew == DecodeCompact(chain[pindexPrev].nBits)
        nTargetSpacing == TargetSpacing(pblock, params)
        nInterval == params.nPowTargetTimespan \div (nTargetSpacing * 2)
        numerator == WTEMANumerator(nInterval, nTargetSpacing, nActualSpacing)
        denominator == nInterval * nTargetSpacing
        bnNew512 == MulDiv512(bnNew, BnFromInt(numerator), BnFromInt(denominator))
    IN  IF pindexLast = 0 THEN [ret |-> nProofOfWorkLimit, fThrow |-> FALSE]
        ELSE IF chain[pindexPrev].pprev = 0 THEN [ret |-> nProofOfWorkLimit, fThrow |-> FALSE]
        ELSE IF chain[pindexPrevPrev].pprev = 0
        THEN [ret |-> nProofOfWorkLimit, fThrow |-> FALSE]
        ELSE IF bnNew512.fThrow THEN [ret |-> 0, fThrow |-> TRUE]
        ELSE [ret |-> ClampedCompact(bnNew512.value, bnPowLimit), fThrow |-> FALSE]

\* variant of the cubic term: the approximation x + 1 on the same denominator
CubicNumeratorLinear(remainder, divisor) ==
    BnMul(BnMulSmall(BnMul(BnFromInt(divisor), BnFromInt(divisor), W512), 50, W512),
          BnFromInt(remainder + divisor), W512)

\* 4x^3 + 11x^2 d + 35x d^2 + 50 d^3 in 512-bit arithmetic (x = remainder, d = divisor)
CubicNumerator(remainder, divisor) ==
    LET r == BnFromInt(remainder)
        d == BnFromInt(divisor)
        rr == BnMul(r, r, W512)
        dd == BnMul(d, d, W512)
    IN  BnAdd(BnAdd(BnMul(BnMulSmall(rr, 4, W512), r, W512),
                    BnMul(BnMulSmall(rr, 11, W512), d, W512), W512),
              BnAdd(BnMul(BnMulSmall(r, 35, W512), dd, W512),
                    BnMul(BnMulSmall(dd, 50, W512), d, W512), W512), W512)

CubicDenominator(divisor) ==
    LET d == BnFromInt(divisor)
    IN  BnMul(BnMulSmall(BnMul(d, d, W512), 50, W512), d, W512)

\* numerator and denominator of 2^(dividend / divisor)
ASERTFactor(dividend, divisor) ==
    LET fPositive == dividend >= 0
        exponent == TruncDiv(dividend, divisor)
        remainder == (IF fPositive THEN dividend ELSE -dividend) % divisor
        shifted == BnShl(<<1>>, IF fPositive THEN exponent ELSE -exponent, W512)
        one == <<1>>
    IN  IF fPositive
        THEN [numerator |-> IF remainder # 0
                            THEN BnMul(shifted, CubicNumerator(remainder, divisor), W512)
                            ELSE shifted,
              denominator |-> IF remainder # 0
                              THEN BnMul(one, CubicDenominator(divisor), W512) ELSE one]
        ELSE [numerator |-> IF remainder # 0
                            THEN BnMul(one, CubicDenominator(divisor), W512) ELSE one,
              denominator |-> IF remainder # 0
                              THEN BnMul(shifted, CubicNumerator(remainder, divisor), W512)
                              ELSE shifted]

\* variant of the reference timestamp without the one-spacing offset
RefBlockTimestampNoOffset(pindexReferenceBlock, pblock, params) ==
    LET pindexReferenceBlockPrev == LastOfTrack(chain[pindexReferenceBlock].pprev, pblock)
        t == IF pindexReferenceBlockPrev # 0 THEN GetBlockTime(pindexReferenceBlockPrev)
             ELSE GetBlockTime(pindexReferenceBlock)
        grid == params.nStakeTimestampMask + 1
    IN  IF IsProofOfStake(pblock) THEN t + ((grid - (t % grid)) % grid) ELSE t

\* the reference timestamp: the reference block's predecessor of the track, or
\* one spacing before the reference block; moved up to the stake time grid
RefBlockTimestamp(pindexReferenceBlock, pblock, params) ==
    LET pindexReferenceBlockPrev == LastOfTrack(chain[pindexReferenceBlock].pprev, pblock)
        t == IF pindexReferenceBlockPrev # 0 THEN GetBlockTime(pindexReferenceBlockPrev)
             ELSE GetBlockTime(pindexReferenceBlock) - TargetSpacing(pblock, params)
        grid == params.nStakeTimestampMask + 1
    IN  IF IsProofOfStake(pblock) THEN t + ((grid - (t % grid)) % grid) ELSE t

\* for (i < nBlocksToSkip) pindex = previous block of the track
SkipBlocks(pindexPrev, nBlocksToSkip, pblock) ==
    Loop(LAMBDA st : IF st.k = 0 \/ st.fNull THEN st
                     ELSE IF st.pindex = 0 THEN [st EXCEPT !.fNull = TRUE]
                     ELSE [st EXCEPT !.pindex = LastOfTrack(chain[st.pindex].pprev, pblock),
                                     !.k = st.k - 1],
         [pindex |-> pindexPrev, k |-> nBlocksToSkip, fNull |-> FALSE], Len(chain) + 1)

\* the averaging loop: targets holds, per nBits value, how many blocks with
\* that value were added (each adds SetCompactBase256(nBits) / nTargets)
AverageLoop(pindexStart, nTargets, nMinDifficulty, pblock, params) ==
    Loop(LAMBDA st :
            IF st.i >= nTargets \/ st.pindex = 0 THEN st
            ELSE LET nBits == chain[st.pindex].nBits
                     fAdd == nBits # nMinDifficulty \/ ~params.fPowAllowMinDifficultyBlocks
                 IN  [pindex |-> LastOfTrack(chain[st.pindex].pprev, pblock),
                      i |-> IF fAdd THEN st.i + 1 ELSE st.i,
                      targets |-> IF ~fAdd THEN st.targets
                                  ELSE IF nBits \in DOMAIN st.targets
                                  THEN [st.targets EXCEPT ![nBits] = @ + 1]
                                  ELSE st.targets @@ (nBits :> 1)],
         [pindex |-> pindexStart, i |-> 0, targets |-> <<>>], Len(chain) + 1)

SumTargets(targets, todo, nTargets) ==
    Loop(LAMBDA st :
            IF st.todo = {} THEN st
            ELSE LET nBits == CHOOSE b \in st.todo : TRUE
                 IN  [todo |-> st.todo \ {nBits},
                      sum |-> BnAdd(BnMulSmall(BnDivSmall(DecodeCompact(nBits), nTargets),
                                               targets[nBits], W256),
                                    st.sum, W256)],
         [todo |-> todo, sum |-> <<>>], Cardinality(todo) + 1).sum

\* the three statics of the cache as one value
CacheStatics(bn, nHeight, algo) ==
    [refBlockTargetCache |-> bn, nTargetCacheHeight |-> nHeight, nTargetCacheAlgo |-> algo]

KeptStatics == CacheStatics(refBlockTargetCache, nTargetCacheHeight, nTargetCacheAlgo)

\* nASERTBlockTargetsToAverage
TargetsToAverage(pblock, params) ==
    (4 * params.nPowTargetTimespan) \div TargetSpacing(pblock, params)

\* what the section under cs_target_cache leaves: the reference target, how
\* it was obtained, and the statics
Section(refBlockTarget, fFromCache, fAveraged, nBlocksAveraged, fNullDeref, statics) ==
    [refBlockTarget |-> refBlockTarget, fFromCache |-> fFromCache, fAveraged |-> fAveraged,
     nBlocksAveraged |-> nBlocksAveraged, fNullDeref |-> fNullDeref, statics |-> statics]

\* the cache is refilled with the average of the window
AverageSummed(refBlockTarget, avg, skipped, nCacheHeight, algo) ==
    Section(refBlockTarget, FALSE, TRUE, avg.i, skipped.fNull \/ skipped.pindex = 0,
            CacheStatics(refBlockTarget, nCacheHeight, algo))

AverageLooped(avg, skipped, nTargets, nCacheHeight, algo) ==
    AverageSummed(SumTargets(avg.targets, DOMAIN avg.targets, nTargets), avg, skipped,
                  nCacheHeight, algo)

AverageSkipped(skipped, nTargets, nCacheHeight, nMinDifficulty, pblock, params) ==
    AverageLooped(AverageLoop(skipped.pindex, nTargets, nMinDifficulty, pblock, params),
                  skipped, nTargets, nCacheHeight, GetAlgoType(pblock.nVersion))

\* the cache is refilled with the target of the reference block
ReferenceTarget(refBlockTarget, algo) ==
    Section(refBlockTarget, FALSE, FALSE, 0, FALSE, CacheStatics(refBlockTarget, -1, algo))

\* variant of the cache test that does not compare the algorithm
CacheStaleAnyAlgo(nCacheHeight, algo) ==
    nTargetCacheHeight # nCacheHeight \/ BnIsZero(refBlockTargetCache)

\* the test of both branches: the statics do not hold this key, or hold zero
CacheStale(nCacheHeight, algo) ==
    nTargetCacheHeight # nCacheHeight \/ nTargetCacheAlgo # algo
        \/ BnIsZero(refBlockTargetCache)

\* variant of the averaging branch that lets an unknown tag read the cache
RecomputeAverageKnownOnly(nCacheHeight, algo) == CacheStale(nCacheHeight, algo)

\* the test of the averaging branch, which an unknown tag always passes
RecomputeAverage(nCacheHeight, algo) == CacheStale(nCacheHeight, algo) \/ algo = -1

\* the section of AverageTargetASERT under cs_target_cache
TargetCacheSection(pindexPrev, pindexReferenceBlock, nHeight, nHeightDiff, pblock, params) ==
    LET algo == GetAlgoType(pblock.nVersion)
        fAlgoMissing == algo = -1
        nASERTBlockTargetsToAverage == TargetsToAverage(pblock, params)
    IN  IF nASERTBlockTargetsToAverage > 0 /\ nHeight >= nASERTBlockTargetsToAverage
           /\ nHeightDiff >= nASERTBlockTargetsToAverage
        THEN IF RecomputeAverage(nHeightDiff \div nASERTBlockTargetsToAverage, algo)
             THEN AverageSkipped(
                      SkipBlocks(pindexPrev, nHeightDiff % nASERTBlockTargetsToAverage, pblock),
                      nASERTBlockTargetsToAverage,
                      nHeightDiff \div nASERTBlockTargetsToAverage,
                      GetCompactBase256(PowLimit(params, TrackIndex(pblock))) - 1,
                      pblock, params)
             ELSE Section(refBlockTargetCache, TRUE, FALSE, 0, FALSE, KeptStatics)
        ELSE IF ~fAlgoMissing
             THEN IF CacheStale(-1, algo)
                  THEN ReferenceTarget(DecodeCompact(chain[pindexReferenceBlock].nBits), algo)
                  ELSE Section(refBlockTargetCache, TRUE, FALSE, 0, FALSE, KeptStatics)
             ELSE Section(DecodeCompact(chain[pindexReferenceBlock].nBits), FALSE, FALSE, 0,
                          FALSE, KeptStatics)

\* the value of a call that returns before the statics are touched
EarlyReturn(nBits) ==
    [ret |-> nBits, fThrow |-> FALSE, refs |-> pindexReferenceBlocks,
     statics |-> KeptStatics, path |-> "bootstrap", source |-> 0,
     refBlockTarget |-> <<>>, fFromCache |-> FALSE, dividend |-> 0,
     fAveraged |-> FALSE, nBlocksAveraged |-> 0]

\* bnNew512 > bnPowLimit || bnNew == 0 ? nProofOfWorkLimit : GetCompactRoundedBase256
ASERTReturn(bnNew512, bnPowLimit, refs, sec, dividend) ==
    [ret |-> IF bnNew512.fThrow THEN 0 ELSE ClampedCompact(bnNew512.value, bnPowLimit),
     fThrow |-> bnNew512.fThrow, refs |-> refs, statics |-> sec.statics,
     path |-> "asert", source |-> 0, refBlockTarget |-> sec.refBlockTarget,
     fFromCache |-> sec.fFromCache, dividend |-> dividend,
     fAveraged |-> sec.fAveraged, nBlocksAveraged |-> sec.nBlocksAveraged]

\* arith_uint512(bnNew) * numerator / denominator
ASERTScale(bnNew, f) == MulDiv512(bnNew, f.numerator, f.denominator)

ASERTRetarget(sec, dividend, refs, bnPowLimit, params) ==
    ASERTReturn(ASERTScale(sec.refBlockTarget, ASERTFactor(dividend, params.nPowTargetTimespan)),
                bnPowLimit, refs, sec, dividend)

\* variant that counts the blocks of the whole chain
BlocksPassedWholeChain(pindexLast, pblock) == chain[pindexLast].nHeight + 1

\* nBlocksPassed, which is nHeightDiff
BlocksPassed(pindexLast, pblock) ==
    (IF IsProofOfStake(pblock) THEN chain[pindexLast].nHeightPoS
     ELSE chain[pindexLast].nHeightPoW) + 1

\* dividend = nTimeDiff - nTargetSpacing * nHeightDiff
ASERTDividend(pindexLast, pindexPrev, pindexReferenceBlock, pblock, params) ==
    GetBlockTime(pindexPrev) - RefBlockTimestamp(pindexReferenceBlock, pblock, params)
        - TargetSpacing(pblock, params) * BlocksPassed(pindexLast, pblock)

ASERTFromReference(pindexLast, pindexPrev, refs, pblock, params) ==
    ASERTRetarget(
        TargetCacheSection(pindexPrev, refs[TrackIndex(pblock) + 1],
                           chain[pindexLast].nHeight + 1, BlocksPassed(pindexLast, pblock),
                           pblock, params),
        ASERTDividend(pindexLast, pindexPrev, refs[TrackIndex(pblock) + 1], pblock, params),
        refs, PowLimit(params, TrackIndex(pblock)), params)

\* variant that takes the block the call started from as the reference
ReferenceBlocksAtPrev(pindexPrev) ==
    IF pindexReferenceBlocks = <<>> THEN <<pindexPrev, pindexPrev>> ELSE pindexReferenceBlocks

\* static pindexReferenceBlocks: initialised by the first call that gets here
ReferenceBlocks(pindexPrev) ==
    IF pindexReferenceBlocks = <<>>
    THEN <<GetASERTReferenceBlockForAlgo(pindexPrev, 0, ALGO_POS),
           GetASERTReferenceBlockForAlgo(pindexPrev, 0, ALGO_POW_SHA256)>>
    ELSE pindexReferenceBlocks

\* variant without the return for the second block of an algorithm
ASERTFromPrevFirstOnly(pindexLast, pindexPrev, nProofOfWorkLimit, pblock, params) ==
    IF chain[pindexPrev].pprev = 0 THEN EarlyReturn(nProofOfWorkLimit)
    ELSE ASERTFromReference(pindexLast, pindexPrev, ReferenceBlocks(pindexPrev), pblock, params)

ASERTFromPrev(pindexLast, pindexPrev, nProofOfWorkLimit, pblock, params) ==
    IF chain[pindexPrev].pprev = 0 THEN EarlyReturn(nProofOfWorkLimit)
    ELSE IF chain[LastOfTrack(chain[pindexPrev].pprev, pblock)].pprev = 0
    THEN EarlyReturn(nProofOfWorkLimit)
    ELSE ASERTFromReference(pindexLast, pindexPrev, ReferenceBlocks(pindexPrev), pblock, params)

AverageTargetASERT(pindexLast, pblock, params) ==
    IF pindexLast = 0
    THEN EarlyReturn(GetCompactBase256(PowLimit(params, TrackIndex(pblock))))
    ELSE ASERTFromPrev(pindexLast, LastOfTrack(pindexLast, pblock),
                       GetCompactBase256(PowLimit(params, TrackIndex(pblock))), pblock, params)

\* variant of the special difficulty rule without the height condition
AllowMinDifficultyBlockAnyHeight(pindexPrev, pblock) ==
    pblock.nTime > GetBlockTime(pindexPrev) + 30 * 60

\* the special difficulty rule: a min-difficulty block is allowed
AllowMinDifficultyBlock(pindexPrev, pblock) ==
    chain[pindexPrev].nHeight > 10 /\ pblock.nTime > GetBlockTime(pindexPrev) + 30 * 60

\* the block the walk back stops at: the last one of the algorithm that is
\* not a min-difficulty block (or the genesis)
LastNonMinDifficulty(pindexPrev, algo, nProofOfWorkLimit) ==
    Loop(LAMBDA p : IF chain[p].pprev # 0
                       /\ (chain[p].nBits = nProofOfWorkLimit - 1 \/ IndexAlgo(p) # algo)
                    THEN chain[p].pprev ELSE p,
         pindexPrev, Len(chain))

\* variant of the walk back that returns the last non-min-difficulty block
WalkBackSourceLastNonMin(pindex, pprev, nProofOfWorkLimit) ==
    IF pprev # 0 /\ chain[pprev].nHeight > 10 THEN pindex ELSE 0

\* the block whose nBits the walk back returns, or 0 when it returns nothing
WalkBackSource(pindex, pprev, nProofOfWorkLimit) ==
    IF pprev # 0 /\ chain[pprev].nHeight > 10
    THEN (IF chain[pprev].nBits # nProofOfWorkLimit - 1 THEN pprev ELSE pindex)
    ELSE 0

WalkBackFrom(pindex, algo, nProofOfWorkLimit) ==
    WalkBackSource(pindex, GetLastBlockIndexForAlgo(chain[pindex].pprev, algo),
                   nProofOfWorkLimit)

MinDifficultyWalkBack(pindexPrev, algo, nProofOfWorkLimit) ==
    IF chain[pindexPrev].pprev # 0 /\ chain[pindexPrev].nBits = nProofOfWorkLimit - 1
    THEN WalkBackFrom(LastNonMinDifficulty(pindexPrev, algo, nProofOfWorkLimit), algo,
                      nProofOfWorkLimit)
    ELSE 0

\* params.powLimit index read by GetNextWorkRequired
NextWorkLimitIndex(pblock) ==
    IF GetAlgoType(pblock.nVersion) = -1 THEN ALGO_POW_SHA256
    ELSE GetAlgoType(pblock.nVersion)

WalkedBackOrASERT(walked, pindexLast, pblock, params) ==
    IF walked # 0
    THEN [EarlyReturn(chain[walked].nBits) EXCEPT !.path = "walkback", !.source = walked]
    ELSE AverageTargetASERT(pindexLast, pblock, params)

\* the branch under fPowAllowMinDifficultyBlocks && algo != -1
SpecialDifficultyRule(pindexLast, pindexPrev, nProofOfWorkLimit, pblock, params) ==
    IF AllowMinDifficultyBlock(pindexPrev, pblock)
    THEN [EarlyReturn(nProofOfWorkLimit - 1) EXCEPT !.path = "mindifficulty"]
    ELSE WalkedBackOrASERT(
             MinDifficultyWalkBack(pindexPrev, GetAlgoType(pblock.nVersion), nProofOfWorkLimit),
             pindexLast, pblock, params)

NextWorkFrom(pindexLast, nProofOfWorkLimit, pblock, params) ==
    IF pindexLast = 0 \/ params.fPowNoRetargeting
    THEN [EarlyReturn(nProofOfWorkLimit) EXCEPT !.path = "limit"]
    ELSE IF params.fPowAllowMinDifficultyBlocks /\ GetAlgoType(pblock.nVersion) # -1
    THEN SpecialDifficultyRule(pindexLast,
                               GetLastBlockIndexForAlgo(pindexLast,
                                                        GetAlgoType(pblock.nVersion)),
                               nProofOfWorkLimit, pblock, params)
    ELSE AverageTargetASERT(pindexLast, pblock, params)

GetNextWorkRequired(pindexLast, pblock, params) ==
    NextWorkFrom(pindexLast, GetCompactBase256(PowLimit(params, NextWorkLimitIndex(pblock))),
                 pblock, params)

\* variant of the limit that keeps a result above the ceiling
RetargetUnlimited(bnNew, bnPowLimit) == bnNew

\* CalculateNextWorkRequired: the interval retarget of the legacy rule, with
\* the 256-bit product of the target and the limited timespan
RetargetLimited(bnNew, bnPowLimit) == IF BnGt(bnNew, bnPowLimit) THEN bnPowLimit ELSE bnNew

\* variant of the limits with the upper one at eight timespans
LimitedTimespanEightfold(nActualTimespan, params) ==
    Max2(params.nPowTargetTimespan \div 4, Min2(params.nPowTargetTimespan * 8, nActualTimespan))

\* the measured timespan limited to [nPowTargetTimespan / 4, nPowTargetTimespan * 4]
LimitedTimespan(nActualTimespan, params) ==
    Max2(params.nPowTargetTimespan \div 4, Min2(params.nPowTargetTimespan * 4, nActualTimespan))

CalculateNextWorkRequired(pindexLast, nFirstBlockTime, params) ==
    IF params.fPowNoRetargeting THEN chain[pindexLast].nBits
    ELSE GetCompactBase256(
             RetargetLimited(
                 BnDivSmall(BnMulSmall(DecodeCompact(chain[pindexLast].nBits),
                                       LimitedTimespan(
                                           GetBlockTime(pindexLast) - nFirstBlockTime, params),
                                       W256),
                            params.nPowTargetTimespan),
                 PowLimit(params, ALGO_POW_SHA256)))

\* variant of the range check that ignores fOverflow
RangeRejectedNoOverflow(t, algo) ==
    t.fNegative \/ BnIsZero(t.value) \/ algo < -1 \/ algo = ALGO_POS \/ algo >= ALGO_COUNT

\* variant of the range check without algo >= ALGO_COUNT
RangeRejectedNoUpper(t, algo) ==
    t.fNegative \/ BnIsZero(t.value) \/ t.fOverflow \/ algo < -1 \/ algo = ALGO_POS

\* the disjuncts of the range check that stand before the ceiling lookup
RangeRejected(t, algo) ==
    t.fNegative \/ BnIsZero(t.value) \/ t.fOverflow \/ algo < -1 \/ algo = ALGO_POS
        \/ algo >= ALGO_COUNT

\* algo == -1 ? ALGO_POW_SHA256 : algo
CeilingIndex(algo) == IF algo = -1 THEN ALGO_POW_SHA256 ELSE algo

\* params.powLimit[index]; the read of an index outside the array yields
\* whatever the memory holds (junk)
ReadPowLimit(params, index, junk) ==
    IF index >= 0 /\ index < ALGO_COUNT THEN PowLimit(params, index) ELSE junk

\* variant of the comparison that also rejects hash = target
HashNotBelowTarget(hash, bnTarget) == ~BnGt(bnTarget, hash)

\* UintToArith256(hash) > bnTarget
HashAboveTarget(hash, bnTarget) == BnGt(hash, bnTarget)

CheckProofOfWork(hash, nBits, algo, params, junk) ==
    IF RangeRejected(SetCompactBase256(nBits), algo)
    THEN [ok |-> FALSE, fRead |-> FALSE, index |-> 0]
    ELSE [ok |-> ~BnGt(DecodeCompact(nBits), ReadPowLimit(params, CeilingIndex(algo), junk))
                 /\ ~HashAboveTarget(hash, DecodeCompact(nBits)),
          fRead |-> TRUE, index |-> CeilingIndex(algo)]

(***************************************************************************)
(* The chain manager and the callers                                       *)
(***************************************************************************)
\* the genesis entry: CreateGenesisBlock(1609246800, nNonce, powLimit[POW].GetCompact(), 1, ..)
GenesisIndex(params) ==
    [pprev |-> 0, nHeight |-> 0, nTime |-> GenesisTime,
     nBits |-> GetCompactBase256(PowLimit(params, ALGO_POW_SHA256)),
     nVersion |-> 1, nNonce |-> 1, nHeightPoS |-> 0, nHeightPoW |-> 0]

\* the CBlockIndex the chain manager adds for a connected header
NewBlockIndex(pindexPrev, pblock, nBits) ==
    [pprev |-> pindexPrev, nHeight |-> chain[pindexPrev].nHeight + 1,
     nTime |-> pblock.nTime, nBits |-> nBits,
     nVersion |-> pblock.nVersion, nNonce |-> pblock.nNonce,
     nHeightPoS |-> chain[pindexPrev].nHeightPoS + (IF IsProofOfStake(pblock) THEN 1 ELSE 0),
     nHeightPoW |-> chain[pindexPrev].nHeightPoW + (IF IsProofOfStake(pblock) THEN 0 ELSE 1)]

\* ComputeBlockVersion(pindexPrev, fProofOfStake ? ALGO_POS : ALGO_POW_SHA256, ..)
ComputeBlockVersion(fProofOfStake) ==
    FIRST_FORK_VERSION + (IF fProofOfStake THEN VERSION_ALGO_POS ELSE VERSION_ALGO_POW_SHA256)

\* the header BlockAssembler::CreateNewBlock fills before it asks for nBits
NewHeader(fProofOfStake, nTime) ==
    [nVersion |-> ComputeBlockVersion(fProofOfStake), nTime |-> nTime,
     nNonce |-> IF fProofOfStake THEN 0 ELSE 1]

Tip == Len(chain)

NoStatics ==
    /\ pindexReferenceBlocks = <<>>
    /\ refBlockTargetCache = <<>>
    /\ nTargetCacheHeight = -2
    /\ nTargetCacheAlgo = ALGO_COUNT

\* no thread but the caller's: the mutex is free
NoThreads == cs_target_cache = 0 /\ threads = <<>>

SetStatics(r) ==
    /\ pindexReferenceBlocks' = r.refs
    /\ refBlockTargetCache' = r.statics.refBlockTargetCache
    /\ nTargetCacheHeight' = r.statics.nTargetCacheHeight
    /\ nTargetCacheAlgo' = r.statics.nTargetCacheAlgo

(***************************************************************************)
(* The environment: which thread produces the next block and the adjusted  *)
(* time at that moment.  A script entry fixes both (prev = 0 builds on the *)
(* tip, another value on that entry of the index: a competing branch); a   *)
(* free entry leaves them to be chosen.                                    *)
(***************************************************************************)
MaxFree == 1
MaxAlgo == 3

PoS(dt) == [kind |-> "block", prev |-> 0, fProofOfStake |-> TRUE, dt |-> dt]
PoW(dt) == [kind |-> "block", prev |-> 0, fProofOfStake |-> FALSE, dt |-> dt]
On(prev, e) == [e EXCEPT !.prev = prev]
Free == [kind |-> "free", prev |-> 0, fProofOfStake |-> FALSE, dt |-> 0]
\* a call from outside the miner (validation, RPC) on the finished index:
\* with any header on any branch or for no block at all, or (dt # 0) with a
\* miner's header dt after a branch's last block
Ask == [kind |-> "ask", prev |-> 0, fProofOfStake |-> FALSE, dt |-> 0]
AskMiner(dt) == [kind |-> "ask", prev |-> 0, fProofOfStake |-> FALSE, dt |-> dt]
Rep(e, n) == [i \in 1..n |-> e]

Day == 24 * 60 * 60

Scripts ==
    { s \o Rep(Free, MaxFree) \o <<Ask>> : s \in
        { <<Free>>,
          Rep(PoS(80), 12),
          Rep(PoW(600), 12),
          Rep(PoW(80), 12),
          Rep(PoS(16), 13) \o <<PoS(2000)>>,
          Rep(PoS(16), 11) \o <<PoS(2000), PoS(16), PoS(2000)>>,
          <<PoS(80), PoS(80), PoW(440), PoS(40), PoS(80), PoS(5 * Day), PoW(600)>>,
          <<PoS(80), PoS(80), PoS(400 * Day), PoW(600), PoW(600)>>,
          Rep(PoW(600), 10) \o <<PoS(80), PoS(2000), On(1, PoS(6080)), PoS(2000)>> } }

FreeChoices == { PoS(80), PoS(2000), PoW(600), PoW(2000) }

Networks == {"main", "signet", "regtest"}

\* the headers of a call from outside the miner: tagged for either
\* algorithm, before the fork version (nNonce decides), with an unknown tag
CallerHeaders(pindexLast) ==
    IF Head(script).dt # 0
    THEN { NewHeader(f, chain[pindexLast].nTime + Head(script).dt) : f \in BOOLEAN }
    ELSE { [nVersion |-> h[1], nNonce |-> h[2],
            nTime |-> (IF pindexLast = 0 THEN GenesisTime ELSE chain[pindexLast].nTime) + dt] :
              h \in { <<ComputeBlockVersion(TRUE), 0>>, <<ComputeBlockVersion(FALSE), 1>>,
                      <<1, 0>>, <<1, 1>>, <<FIRST_FORK_VERSION + 3 * VERSION_ALGO_POS, 1>> },
              dt \in IF pindexLast = 0 THEN {0} ELSE {80, 2000} }

\* the entries of the index no other entry builds on
Leaves == (1..Len(chain)) \ { chain[q].pprev : q \in 1..Len(chain) }

CallerTips == IF Head(script).dt # 0 THEN Leaves ELSE {0} \cup Leaves

Init ==
    /\ net \in Networks
    /\ chain = <<GenesisIndex(Params(net))>>
    /\ NoStatics
    /\ script \in Scripts
    /\ calls = <<>>
    /\ NoThreads

\* the chain manager connects the block
Connected(pindexPrev, pblock, r) ==
    /\ ~r.fThrow
    /\ chain' = Append(chain, NewBlockIndex(pindexPrev, pblock, r.ret))
    /\ SetStatics(r)

\* pblock->nBits = GetNextWorkRequired(pindexPrev, pblock, consensusParams)
Assembled(pindexPrev, pblock) ==
    Connected(pindexPrev, pblock, GetNextWorkRequired(pindexPrev, pblock, Params(net)))

\* BlockAssembler::CreateNewBlock sets nVersion, nTime and nBits of the new block
AssembledOn(pindexPrev, e) ==
    Assembled(pindexPrev, NewHeader(e.fProofOfStake, chain[pindexPrev].nTime + e.dt))

CreateNewBlock ==
    /\ script # <<>> /\ Head(script).kind # "ask"
    /\ \E e \in (IF Head(script).kind = "free" THEN FreeChoices ELSE {Head(script)}) :
          AssembledOn(IF e.prev = 0 THEN Tip ELSE e.prev, e)
    /\ script' = Tail(script)
    /\ UNCHANGED <<net, calls, cs_target_cache, threads>>

CallRecord(op, pindexLast, pblock, r) ==
    [op |-> op, pindexLast |-> pindexLast, pblock |-> pblock, ret |-> r.ret,
     fThrow |-> r.fThrow, path |-> r.path, source |-> r.source,
     refBlockTarget |-> r.refBlockTarget, fFromCache |-> r.fFromCache,
     dividend |-> r.dividend, fAveraged |-> r.fAveraged,
     nBlocksAveraged |-> r.nBlocksAveraged, before |-> KeptStatics, after |-> r.statics]

Called(op, r, pindexLast, pblock) ==
    /\ calls' = Append(calls, CallRecord(op, pindexLast, pblock, r))
    /\ SetStatics(r)
    /\ script' = Tail(script)
    /\ UNCHANGED <<chain, net, cs_target_cache, threads>>

\* WeightedTargetExponentialMovingAverage touches no static
WTEMAResult(r) == [EarlyReturn(r.ret) EXCEPT !.fThrow = r.fThrow, !.path = "wtema"]

Asked == script # <<>> /\ Head(script).kind = "ask"

CallGetNextWorkRequired ==
    /\ Asked
    /\ \E pindexLast \in CallerTips : \E pblock \in CallerHeaders(pindexLast) :
          Called("GetNextWorkRequired",
                 GetNextWorkRequired(pindexLast, pblock, Params(net)), pindexLast, pblock)

CallWeightedTargetExponentialMovingAverage ==
    /\ Asked
    /\ \E pindexLast \in CallerTips : \E pblock \in CallerHeaders(pindexLast) :
          Called("WeightedTargetExponentialMovingAverage",
                 WTEMAResult(WeightedTargetExponentialMovingAverage(pindexLast, pblock,
                                                                    Params(net))),
                 pindexLast, pblock)

CallAverageTargetASERT ==
    /\ Asked
    /\ \E pindexLast \in CallerTips : \E pblock \in CallerHeaders(pindexLast) :
          Called("AverageTargetASERT",
                 AverageTargetASERT(pindexLast, pblock, Params(net)), pindexLast, pblock)

Next ==
    \/ CreateNewBlock
    \/ CallGetNextWorkRequired
    \/ CallWeightedTargetExponentialMovingAverage
    \/ CallAverageTargetASERT

Spec == Init /\ [][Next]_vars

(***************************************************************************)
(* Two branches that part below the end of the first averaging window of   *)
(* the proof-of-work blocks (4 * 12 h / 600 s = 288 blocks) and calls of   *)
(* GetNextWorkRequired on both.                                            *)
(***************************************************************************)
ForkDepth == 285

ForkScript ==
    <<PoS(80), PoS(80), PoW(16)>> \o Rep(PoW(600), ForkDepth - 1)
        \o Rep(PoW(600), 3)
        \o <<On(ForkDepth + 3, PoW(1801)), PoW(1), PoW(1)>>
        \o Rep(AskMiner(600), 3)

InitFork ==
    /\ net = "main"
    /\ chain = <<GenesisIndex(Params(net))>>
    /\ NoStatics
    /\ script = ForkScript
    /\ calls = <<>>
    /\ NoThreads

NextFork ==
    \/ CreateNewBlock
    \/ CallGetNextWorkRequired

SpecFork == InitFork /\ [][NextFork]_vars

(***************************************************************************)
(* Calls of CheckProofOfWork                                               *)
(***************************************************************************)
\* compact values around the ceilings of the networks, with the sign bit,
\* with sizes that overflow, and zero
Compact(nSize, nWord) == nSize * 2^24 + nWord

PoWBits ==
    { 0, Compact(30, 65535), Compact(30, 65534), Compact(30, 227246), Compact(30, 227247),
      Compact(32, 8388607), Compact(29, 65535), Compact(3, 1), Compact(1, 65536),
      Compact(1, 8388609), Compact(32, 8388608), Compact(30, 8388608 + 255),
      Compact(34, 65537), Compact(35, 1), -1 }

PoWHashes ==
    { <<>>, [i \in 1..W256 |-> 255] }
        \cup UNION { { DecodeCompact(b), BnAdd(DecodeCompact(b), <<1>>, W256),
                       BnSub(DecodeCompact(b), <<1>>) } :
                     b \in { c \in PoWBits : ~BnIsZero(DecodeCompact(c)) } }

InitPoW ==
    /\ net \in Networks
    /\ chain = <<GenesisIndex(Params(net))>>
    /\ NoStatics
    /\ script = <<Ask>>
    /\ calls = <<>>
    /\ NoThreads

CheckedRecord(hash, nBits, algo, r) ==
    [op |-> "CheckProofOfWork", hash |-> hash, nBits |-> nBits, algo |-> algo,
     ok |-> r.ok, fRead |-> r.fRead, index |-> r.index]

CallCheckProofOfWork ==
    /\ Asked
    /\ \E hash \in PoWHashes, nBits \in PoWBits, algo \in (-MaxAlgo)..MaxAlgo,
          junk \in {<<>>, [i \in 1..W256 |-> 255]} :
          calls' = Append(calls, CheckedRecord(hash, nBits, algo,
                              CheckProofOfWork(hash, nBits, algo, Params(net), junk)))
    /\ script' = Tail(script)
    /\ UNCHANGED <<chain, net, pindexReferenceBlocks, refBlockTargetCache,
                   nTargetCacheHeight, nTargetCacheAlgo, cs_target_cache, threads>>

NextPoW == CallCheckProofOfWork

SpecPoW == InitPoW /\ [][NextPoW]_vars

(***************************************************************************)
(* Calls of CalculateNextWorkRequired on an index entry whose nBits is any *)
(* target a validated block carries, with any first-block time             *)
(***************************************************************************)
\* compact targets of validated blocks: positive and not above the ceiling
RetargetBits(params) ==
    { b \in { GetCompactBase256(PowLimit(params, ALGO_POW_SHA256)),
              GetCompactBase256(PowLimit(params, ALGO_POW_SHA256)) - 1,
              GetCompactBase256(PowLimit(params, ALGO_POS)),
              Compact(30, 32768), Compact(29, 65535), Compact(3, 1) } :
        ~BnGt(DecodeCompact(b), PowLimit(params, ALGO_POW_SHA256)) }

RetargetIndex(params, nBits, nTime) ==
    [GenesisIndex(params) EXCEPT !.pprev = 1, !.nHeight = 1, !.nTime = nTime,
                                 !.nBits = nBits, !.nVersion = ComputeBlockVersion(FALSE),
                                 !.nHeightPoW = 1]

FirstBlockTimes(pindexLast, params) ==
    { 0, 1, GenesisTime, GetBlockTime(pindexLast) + 1, GetBlockTime(pindexLast) + 10 * Day }
        \cup { GetBlockTime(pindexLast) - d :
                 d \in { params.nPowTargetTimespan \div 4, params.nPowTargetTimespan \div 4 + 1,
                         params.nPowTargetTimespan, params.nPowTargetTimespan * 4 - 1,
                         params.nPowTargetTimespan * 4, params.nPowTargetTimespan * 4 + 1 } }

InitRetarget ==
    /\ net \in Networks
    /\ chain \in { <<GenesisIndex(Params(net)), RetargetIndex(Params(net), b, GenesisTime + dt)>> :
                      b \in RetargetBits(Params(net)), dt \in {600, 10 * Day} }
    /\ NoStatics
    /\ script = <<Ask>>
    /\ calls = <<>>
    /\ NoThreads

CallCalculateNextWorkRequired ==
    /\ Asked
    /\ \E pindexLast \in 1..Len(chain) :
          \E nFirstBlockTime \in FirstBlockTimes(pindexLast, Params(net)) :
             calls' = Append(calls,
                        [op |-> "CalculateNextWorkRequired", pindexLast |-> pindexLast,
                         nFirstBlockTime |-> nFirstBlockTime,
                         ret |-> CalculateNextWorkRequired(pindexLast, nFirstBlockTime,
                                                           Params(net))])
    /\ script' = Tail(script)
    /\ UNCHANGED <<chain, net, pindexReferenceBlocks, refBlockTargetCache,
                   nTargetCacheHeight, nTargetCacheAlgo, cs_target_cache, threads>>

NextRetarget == CallCalculateNextWorkRequired

SpecRetarget == InitRetarget /\ [][NextRetarget]_vars

(***************************************************************************)
(* Calls of AverageTargetASERT on three branches of a regtest chain, whose *)
(* proof-of-work averaging window is 4 * 1 h / 600 s = 24 blocks: one      *)
(* below the first window, one in the first and one in the second          *)
(***************************************************************************)
CacheWindow == TargetsToAverage(NewHeader(FALSE, 0), CRegTestParams)

CacheScript ==
    <<PoS(80), PoS(80)>> \o Rep(PoW(600), 2 * CacheWindow - 1)
        \o <<On(CacheWindow \div 2, PoW(600)), On(CacheWindow + 6, PoW(600))>>
        \o <<AskMiner(600), Ask, Ask>>

InitCache ==
    /\ net = "regtest"
    /\ chain = <<GenesisIndex(Params(net))>>
    /\ NoStatics
    /\ script = CacheScript
    /\ calls = <<>>
    /\ NoThreads

NextCache ==
    \/ CreateNewBlock
    \/ CallAverageTargetASERT

SpecCache == InitCache /\ [][NextCache]_vars

(***************************************************************************)
(* The scripted chains of Spec, and a mainnet chain whose proof-of-work    *)
(* blocks fill the first averaging window one second apart (far ahead of   *)
(* schedule), then fall behind by more than a timespan, then step back in  *)
(* time (a block may be earlier than its predecessor, not than the median  *)
(* of the last eleven)                                                     *)
(***************************************************************************)
DriftScript ==
    <<PoS(80), PoS(80)>> \o Rep(PoW(1), TargetsToAverage(NewHeader(FALSE, 0), CMainParams))
        \o <<AskMiner(600), PoW(217000), AskMiner(600), PoW(-22000), AskMiner(600)>>

\* chains whose first block of an algorithm comes early, alone or followed
\* by blocks of the other algorithm
EarlyScripts ==
    { s \o <<Ask>> : s \in { <<PoW(16)>>, <<PoS(16)>>, <<PoW(16)>> \o Rep(PoS(16), 3),
                              <<PoS(16)>> \o Rep(PoW(1), 3) } }

\* mainnet: a proof-of-work block more than 30 minutes after its predecessor
\* (a min-difficulty block) among the blocks of the first averaging window
RelaxedScript ==
    <<PoS(80), PoS(80)>> \o Rep(PoW(1), 11) \o <<PoW(1801)>>
        \o Rep(PoW(1), TargetsToAverage(NewHeader(FALSE, 0), CMainParams) - 13)
        \o <<AskMiner(600)>>

\* mainnet: proof-of-work blocks on schedule but for the second, which is two
\* seconds early, up to the first block past the averaging window
NearScheduleScript ==
    <<PoW(600), PoW(598), PoW(602)>>
        \o Rep(PoW(600), TargetsToAverage(NewHeader(FALSE, 0), CMainParams) - 3)
        \o <<AskMiner(600)>>

DriftScripts(n) ==
    IF n = "main" THEN {DriftScript, RelaxedScript, NearScheduleScript} \cup EarlyScripts
    ELSE EarlyScripts

InitDrift ==
    \/ Init
    \/ /\ net \in Networks
       /\ chain = <<GenesisIndex(Params(net))>>
       /\ NoStatics
       /\ script \in DriftScripts(net)
       /\ calls = <<>>
       /\ NoThreads

SpecDrift == InitDrift /\ [][Next]_vars

(***************************************************************************)
(* Staking: CreateCoinStake as BlockAssembler::CreateNewBlock calls it     *)
(***************************************************************************)
\* chain.h is not in src/: the drift a block timestamp may have over the
\* adjusted time
MAX_FUTURE_BLOCK_TIME == 2 * 60 * 60
nMedianTimeSpan == 11

\* the block times GetMedianTimePast collects: up to nMedianTimeSpan, from p back
RECURSIVE MedianTimes(_, _)
MedianTimes(p, n) ==
    IF p = 0 \/ n = 0 THEN <<>> ELSE <<chain[p].nTime>> \o MedianTimes(chain[p].pprev, n - 1)

\* CBlockIndex::GetMedianTimePast: the middle entry of the sorted times
GetMedianTimePast(p) ==
    LET t == MedianTimes(p, nMedianTimeSpan)
        mid == Len(t) \div 2
    IN CHOOSE v \in { t[j] : j \in 1..Len(t) } :
           /\ Cardinality({ j \in 1..Len(t) : t[j] < v }) <= mid
           /\ Cardinality({ j \in 1..Len(t) : t[j] <= v }) > mid

\* ::ChainActive()[nHeight]: the index holds the active chain alone, 0 is no entry
ChainActiveAt(nHeight) == IF nHeight \in 0..(Len(chain) - 1) THEN nHeight + 1 ELSE 0

\* while ((pblock->nTime & nStakeTimestampMask) != 0) pblock->nTime++;
StakeSlot(nTime, params) ==
    LET grid == params.nStakeTimestampMask + 1
    IN nTime + ((grid - (nTime % grid)) % grid)

\* the age/depth test: TRUE when the candidate is passed over (the variant
\* leaves the depth out)
TooYoungOrShallowAgeOnly(pindexFrom, nTime, nHeight, params) ==
    GetBlockTime(pindexFrom) + params.nStakeMinAge > nTime

TooYoungOrShallow(pindexFrom, nTime, nHeight, params) ==
    \/ GetBlockTime(pindexFrom) + params.nStakeMinAge > nTime
    \/ nHeight - chain[pindexFrom].nHeight < params.nStakeMinDepth

\* the timestamp protocol test made once a kernel was found
OffProtocol(nTime, pindexPrev, nAdjustedTime, params, fRegTest) ==
    \/ nTime <= GetMedianTimePast(pindexPrev)
    \/ nTime % (params.nStakeTimestampMask + 1) # 0
    \/ (nTime > nAdjustedTime + MAX_FUTURE_BLOCK_TIME /\ ~fRegTest)

\* what the search does when a found kernel is off the timestamp protocol:
\* it leaves the loop (the variant goes on with the next candidate)
OffProtocolContinue(st) == st

OffProtocolBreak(st) == [st EXCEPT !.done = TRUE, !.stop = "timestamp"]

\* if (nReward < 0) return error("not creating mint with negative subsidy")
RewardRefused(nReward) == nReward < 0

\* one pass of the loop over setCoins.  A candidate is
\*   fInView : view.GetCoin finds the output
\*   nHeight : coin.nHeight, the height of the block the output is from
\*   fKernel : what CheckStakeKernelHash answers for it (kernel.cpp is not in src/)
\*   after   : what follows a kernel: "ok" (signed coinstake), "skip" (a script
\*             type or key the wallet cannot stake: continue), "error" (GetCoinAge
\*             or SignTransaction fails: return error(..))
\*   nReward : what GetBlockSubsidy answers for the coin age of the kernel
StakeStep(st, setCoins, nTime, nHeight, pindexPrev, nAdjustedTime, params, fRegTest) ==
    IF st.done \/ st.i > Len(setCoins) THEN [st EXCEPT !.done = TRUE]
    ELSE IF Tip - 1 # chain[pindexPrev].nHeight THEN [st EXCEPT !.done = TRUE, !.stop = "tip"]
    ELSE
    LET pcoin == setCoins[st.i]
        pindexFrom == ChainActiveAt(pcoin.nHeight)
        next == [st EXCEPT !.i = @ + 1, !.visited = Append(@, st.i)]
        hashed == [next EXCEPT !.hashed = Append(@, st.i)]
    IN IF ~pcoin.fInView THEN next
       ELSE IF pindexFrom = 0 THEN next
       ELSE IF TooYoungOrShallow(pindexFrom, nTime, nHeight, params) THEN next
       ELSE IF ~pcoin.fKernel THEN hashed
       ELSE IF OffProtocol(nTime, pindexPrev, nAdjustedTime, params, fRegTest)
            THEN OffProtocolBreak(hashed)
       ELSE IF pcoin.after = "skip" THEN hashed
       ELSE IF pcoin.after = "error" \/ RewardRefused(pcoin.nReward)
            THEN [hashed EXCEPT !.done = TRUE, !.stop = "error", !.fError = TRUE]
       ELSE [hashed EXCEPT !.done = TRUE, !.stop = "kernel", !.fKernelFound = TRUE]

\* CreateCoinStake(coinstakeTx, pblock, pwallet, nHeight, pindexPrev, params):
\* the header time it leaves, its answer, the candidates it looked at and
\* those it evaluated the kernel hash for
CreateCoinStake(nTime, setCoins, nHeight, pindexPrev, nAdjustedTime, params, fRegTest) ==
    IF setCoins = <<>>
    THEN [nTime |-> nTime, ret |-> FALSE, fError |-> FALSE, stop |-> "none",
          visited |-> <<>>, hashed |-> <<>>]
    ELSE LET slot == StakeSlot(nTime, params)
             st == Loop(LAMBDA s : StakeStep(s, setCoins, slot, nHeight, pindexPrev,
                                             nAdjustedTime, params, fRegTest),
                        [i |-> 1, done |-> FALSE, stop |-> "end", fError |-> FALSE,
                         fKernelFound |-> FALSE, visited |-> <<>>, hashed |-> <<>>],
                        Len(setCoins) + 2)
         IN [nTime |-> slot, ret |-> st.fKernelFound, fError |-> st.fError,
             stop |-> st.stop, visited |-> st.visited, hashed |-> st.hashed]

\* the blocks of a chain mined on or behind schedule: every block at the
\* ceiling GetNextWorkRequired answers for it
StakeChainLength(n) == IF n = "regtest" THEN 14 ELSE 620
StakeChain(n) ==
    [i \in 1..StakeChainLength(n) |->
        IF i = 1 THEN GenesisIndex(Params(n))
        ELSE [pprev |-> i - 1, nHeight |-> i - 1, nTime |-> GenesisTime + 600 * (i - 1),
              nBits |-> GetCompactBase256(PowLimit(Params(n), ALGO_POW_SHA256)),
              nVersion |-> ComputeBlockVersion(FALSE), nNonce |-> 1,
              nHeightPoS |-> 0, nHeightPoW |-> i - 1]]

\* the wallet's stake candidates: spent, of a block off the active chain, of
\* the genesis block, just deep enough, one block short, of the tip
MaxCoins == 2
StakeOrigins(params) ==
    { h \in { 0, Tip - params.nStakeMinDepth, Tip - params.nStakeMinDepth + 1, Tip - 1 } :
        h \in 0..(Tip - 1) }
StakeCoin(fInView, nHeight, fKernel, after) ==
    [fInView |-> fInView, nHeight |-> nHeight, fKernel |-> fKernel, after |-> after,
     nReward |-> 1]
StakeCoins(params) ==
    { StakeCoin(FALSE, 0, FALSE, "ok"), StakeCoin(TRUE, Tip + 5, FALSE, "ok"),
      StakeCoin(TRUE, 0, TRUE, "skip"), StakeCoin(TRUE, 0, TRUE, "error") }
    \cup { StakeCoin(TRUE, h, f, "ok") : h \in StakeOrigins(params), f \in BOOLEAN }
    \cup { [StakeCoin(TRUE, 0, TRUE, "ok") EXCEPT !.nReward = r] : r \in {-1, 0} }
RECURSIVE CoinSets(_, _)
CoinSets(c, n) ==
    IF n = 0 THEN { <<>> }
    ELSE CoinSets(c, n - 1) \cup { Append(s, x) : s \in CoinSets(c, n - 1), x \in c }

\* GetAdjustedTime() against the tip's time: a clock far behind the chain,
\* at its median time, just after the tip, a block interval later
StakeClocks == { chain[Tip].nTime + d : d \in { -3 * 60 * 60, -3000, 10, 600 } }

InitStake ==
    /\ net \in {"main", "regtest"}
    /\ chain = StakeChain(net)
    /\ NoStatics
    /\ script = <<>>
    /\ calls = <<>>
    /\ NoThreads

\* CreateNewBlock for a staking wallet: the header time of line 175, then
\* the search for a coinstake
CallCreateCoinStake ==
    /\ calls = <<>>
    /\ \E nAdjustedTime \in StakeClocks, setCoins \in CoinSets(StakeCoins(Params(net)), MaxCoins) :
         LET pindexPrev == Tip
             nHeight == chain[pindexPrev].nHeight + 1
             nTime == Max2(GetMedianTimePast(pindexPrev) + 1, nAdjustedTime)
             r == CreateCoinStake(nTime, setCoins, nHeight, pindexPrev, nAdjustedTime,
                                  Params(net), net = "regtest")
         IN calls' = <<[op |-> "CreateCoinStake", pindexPrev |-> pindexPrev, nHeight |-> nHeight,
                        nAdjustedTime |-> nAdjustedTime, setCoins |-> setCoins,
                        nTimeIn |-> nTime, nTime |-> r.nTime, ret |-> r.ret, fError |-> r.fError,
                        stop |-> r.stop, visited |-> r.visited, hashed |-> r.hashed]>>
    /\ UNCHANGED <<chain, net, pindexReferenceBlocks, refBlockTargetCache,
                   nTargetCacheHeight, nTargetCacheAlgo, script, cs_target_cache, threads>>

NextStake == CallCreateCoinStake

SpecStake == InitStake /\ [][NextStake]_vars

(***************************************************************************)
(* BlockAssembler::CreateNewBlock from the header of line 168-176 to the   *)
(* call of TestBlockValidity, for a miner and for a staking wallet, in two *)
(* steps: the header is assembled (nTime, nBits), then finished (the       *)
(* coinstake search, or UpdateTime).  The template is the last entry of    *)
(* calls.                                                                  *)
(***************************************************************************)
\* the chain of StakeChain with a proof-of-stake block, on the time-slot
\* grid, as its last block
StakeChainWithStake(n) ==
    [StakeChain(n) EXCEPT ![StakeChainLength(n)] =
        [@ EXCEPT !.nTime = StakeSlot(@, Params(n)),
                  !.nBits = GetCompactBase256(PowLimit(Params(n), ALGO_POS)),
                  !.nVersion = ComputeBlockVersion(TRUE), !.nNonce = 0,
                  !.nHeightPoS = 1, !.nHeightPoW = @ - 1]]

\* GetAdjustedTime() when the header is assembled, against the tip's time
TemplateClocks == { chain[Tip].nTime + d : d \in { -3000, 10, 600, 1795, 1801 } }

\* how far the clock has moved on when UpdateTime reads it
TemplateDelays == {0, 10, 3600}

InitTemplate ==
    /\ net \in {"main", "regtest"}
    /\ chain \in {StakeChain(net), StakeChainWithStake(net)}
    /\ NoStatics
    /\ script = <<>>
    /\ calls = <<>>
    /\ NoThreads

\* the template under assembly
Template == calls[Len(calls)]

\* nVersion, nTime = max(median time past + 1, adjusted time), nBits
AssembleHeader ==
    /\ calls = <<>>
    /\ \E fProofOfStake \in BOOLEAN, nAdjustedTime \in TemplateClocks :
         LET pindexPrev == Tip
             nTime == Max2(GetMedianTimePast(pindexPrev) + 1, nAdjustedTime)
             r == GetNextWorkRequired(pindexPrev, NewHeader(fProofOfStake, nTime), Params(net))
         IN /\ ~r.fThrow
            /\ calls' = <<[op |-> "CreateNewBlock", pc |-> "assembled",
                           fProofOfStake |-> fProofOfStake, pindexPrev |-> pindexPrev,
                           nAdjustedTime |-> nAdjustedTime, nTimeSet |-> nTime,
                           nTime |-> nTime, nBits |-> r.ret, setCoins |-> <<>>]>>
            /\ SetStatics(r)
    /\ UNCHANGED <<chain, net, script, cs_target_cache, threads>>

\* the coinstake search: without a coinstake CreateNewBlock returns nullptr;
\* with one, the header keeps the time CreateCoinStake left and its nBits
FinishProofOfStake ==
    /\ calls # <<>> /\ Template.pc = "assembled" /\ Template.fProofOfStake
    /\ \E fSearch \in BOOLEAN, setCoins \in CoinSets(StakeCoins(Params(net)), 1) :
         LET r == CreateCoinStake(Template.nTime, setCoins,
                                  chain[Template.pindexPrev].nHeight + 1, Template.pindexPrev,
                                  Template.nAdjustedTime, Params(net), net = "regtest")
         IN calls' = <<[Template EXCEPT
                           !.pc = IF fSearch /\ r.ret THEN "handed" ELSE "cancelled",
                           !.nTime = IF fSearch THEN r.nTime ELSE @,
                           !.setCoins = setCoins]>>
    /\ UNCHANGED <<chain, net, pindexReferenceBlocks, refBlockTargetCache,
                   nTargetCacheHeight, nTargetCacheAlgo, script, cs_target_cache, threads>>

\* UpdateTime(pblock, consensusParams, pindexPrev) for a header nDelay later
UpdateTime(nDelay) ==
    LET nNewTime == Max2(GetMedianTimePast(Template.pindexPrev) + 1,
                         Template.nAdjustedTime + nDelay)
        nTime == IF Template.nTime < nNewTime THEN nNewTime ELSE Template.nTime
        r == GetNextWorkRequired(Template.pindexPrev, NewHeader(FALSE, nTime), Params(net))
    IN  IF Params(net).fPowAllowMinDifficultyBlocks
        THEN /\ ~r.fThrow
             /\ calls' = <<[Template EXCEPT !.pc = "handed", !.nTime = nTime,
                                            !.nBits = r.ret]>>
             /\ SetStatics(r)
        ELSE /\ calls' = <<[Template EXCEPT !.pc = "handed", !.nTime = nTime]>>
             /\ UNCHANGED <<pindexReferenceBlocks, refBlockTargetCache,
                            nTargetCacheHeight, nTargetCacheAlgo>>

\* if (!fProofOfStake) UpdateTime(..): the header of a miner
FinishProofOfWork ==
    /\ calls # <<>> /\ Template.pc = "assembled" /\ ~Template.fProofOfStake
    /\ \E nDelay \in TemplateDelays : UpdateTime(nDelay)
    /\ UNCHANGED <<chain, net, script, cs_target_cache, threads>>

NextTemplate ==
    \/ AssembleHeader
    \/ FinishProofOfStake
    \/ FinishProofOfWork

SpecTemplate == InitTemplate /\ [][NextTemplate]_vars

(***************************************************************************)
(* Threads inside AverageTargetASERT: the section under cs_target_cache,   *)
(* one statement of it at a time                                           *)
(***************************************************************************)
MaxThreads == 2
ThreadIds == 1..MaxThreads

\* a thread outside the function.  Of its locals, before, after, expected,
\* order and fTorn are kept for the properties: the statics when it made
\* the test and when it left the section, what the section and the call
\* give when nothing runs beside them, its turn at the mutex, and whether
\* another thread stood between two of its stores when this one read
IdleThread ==
    [pc |-> "idle", pindexLast |-> 0, pblock |-> NewHeader(FALSE, 0),
     pindexPrev |-> 0, dividend |-> 0,
     pending |-> CacheStatics(<<>>, 0, 0), fAveraged |-> FALSE, fFromCache |-> FALSE,
     refBlockTarget |-> <<>>, ret |-> 0, fThrow |-> FALSE,
     before |-> CacheStatics(<<>>, 0, 0), after |-> CacheStatics(<<>>, 0, 0),
     expected |-> [ret |-> 0, fThrow |-> FALSE, statics |-> CacheStatics(<<>>, 0, 0)],
     order |-> 0, fTorn |-> FALSE]

ThreadScript == <<PoS(80), PoS(80)>> \o Rep(PoW(80), TargetsToAverage(NewHeader(FALSE, 0), CMainParams))

\* the headers the threads call with: a staker's (below its window: lines
\* 326-332) and a miner's (at its window: lines 286-321)
ThreadHeaders ==
    { NewHeader(TRUE, chain[Tip].nTime + 80), NewHeader(FALSE, chain[Tip].nTime + 600) }

InitThreads ==
    /\ net = "main"
    /\ chain = <<GenesisIndex(Params(net))>>
    /\ NoStatics
    /\ script = ThreadScript
    /\ calls = <<>>
    /\ cs_target_cache = 0
    /\ threads = [t \in ThreadIds |-> IdleThread]

Running(t) == script = <<>> /\ threads # <<>>

\* LOCK(cs_target_cache) goes through when no thread holds the mutex (the
\* variant lets every thread through)
AcquirableAlways(holder) == TRUE

Acquirable(holder) == holder = 0

\* another thread has stored the value and not yet the algorithm
Torn(t) == \E u \in ThreadIds \ {t} : threads[u].pc \in {"store_height", "store_algo"}

ThreadRef(t) == pindexReferenceBlocks[TrackIndex(threads[t].pblock) + 1]
ThreadLimit(t) == PowLimit(Params(net), TrackIndex(threads[t].pblock))

\* lines 233-242: the first two blocks of an algorithm get the ceiling
ReturnsEarly(pindexPrev, pblock) ==
    \/ chain[pindexPrev].pprev = 0
    \/ chain[LastOfTrack(chain[pindexPrev].pprev, pblock)].pprev = 0

\* lines 219-274: the early returns, the static reference blocks, the locals
\* (the threads are numbered in the order they come in)
ThreadCalled(t, pindexLast, pindexPrev, pblock, refs) ==
    IF ReturnsEarly(pindexPrev, pblock)
    THEN /\ threads' = [threads EXCEPT
                ![t].pc = "done", ![t].pindexLast = pindexLast, ![t].pblock = pblock,
                ![t].pindexPrev = pindexPrev,
                ![t].ret = GetCompactBase256(PowLimit(Params(net), TrackIndex(pblock))),
                ![t].expected.ret = GetCompactBase256(PowLimit(Params(net), TrackIndex(pblock)))]
         /\ UNCHANGED pindexReferenceBlocks
    ELSE /\ threads' = [threads EXCEPT
                ![t].pc = "lock", ![t].pindexLast = pindexLast, ![t].pblock = pblock,
                ![t].pindexPrev = pindexPrev,
                ![t].dividend = ASERTDividend(pindexLast, pindexPrev,
                                              refs[TrackIndex(pblock) + 1], pblock, Params(net))]
         /\ pindexReferenceBlocks' = refs

ThreadCalledWith(t, pindexLast, pindexPrev, pblock) ==
    ThreadCalled(t, pindexLast, pindexPrev, pblock, ReferenceBlocks(pindexPrev))

ThreadCall(t) ==
    /\ Running(t) /\ threads[t].pc = "idle"
    /\ \A u \in 1..(t - 1) : threads[u].pc # "idle"
    /\ \E pblock \in ThreadHeaders :
         ThreadCalledWith(t, Tip, LastOfTrack(Tip, pblock), pblock)
    /\ UNCHANGED <<chain, net, refBlockTargetCache, nTargetCacheHeight, nTargetCacheAlgo,
                   script, calls, cs_target_cache>>

\* line 279: LOCK(cs_target_cache)
ThreadLock(t) ==
    /\ Running(t) /\ threads[t].pc = "lock"
    /\ Acquirable(cs_target_cache)
    /\ cs_target_cache' = t
    /\ threads' = [threads EXCEPT ![t].pc = "test",
                      ![t].order = 1 + Cardinality({ u \in ThreadIds : threads[u].order > 0 })]
    /\ UNCHANGED <<chain, net, pindexReferenceBlocks, refBlockTargetCache,
                   nTargetCacheHeight, nTargetCacheAlgo, script, calls>>

\* lines 285-286, 325-326 and, when the average is refilled, 287-309: the
\* statics are read and the branch is taken
ThreadTested(t, sec, atomic) ==
    threads' = [threads EXCEPT
        ![t].pc = IF sec.fFromCache THEN "read"
                  ELSE IF sec.fAveraged \/ GetAlgoType(threads[t].pblock.nVersion) # -1
                  THEN "store_value" ELSE "unlock",
        ![t].pending = sec.statics,
        ![t].fAveraged = sec.fAveraged,
        ![t].fFromCache = sec.fFromCache,
        ![t].refBlockTarget = IF sec.fFromCache THEN <<>> ELSE sec.refBlockTarget,
        ![t].before = KeptStatics,
        ![t].expected = [ret |-> atomic.ret, fThrow |-> atomic.fThrow,
                         statics |-> atomic.statics],
        ![t].fTorn = Torn(t)]

ThreadTestedSection(t, sec) ==
    ThreadTested(t, sec, ASERTRetarget(sec, threads[t].dividend, pindexReferenceBlocks,
                                       ThreadLimit(t), Params(net)))

ThreadTest(t) ==
    /\ Running(t) /\ threads[t].pc = "test"
    /\ ThreadTestedSection(t,
           TargetCacheSection(threads[t].pindexPrev, ThreadRef(t),
                              chain[threads[t].pindexLast].nHeight + 1,
                              BlocksPassed(threads[t].pindexLast, threads[t].pblock),
                              threads[t].pblock, Params(net)))
    /\ UNCHANGED <<chain, net, pindexReferenceBlocks, refBlockTargetCache,
                   nTargetCacheHeight, nTargetCacheAlgo, script, calls, cs_target_cache>>

\* line 315 or 327: refBlockTargetCache = ..
ThreadStoreValue(t) ==
    /\ Running(t) /\ threads[t].pc = "store_value"
    /\ refBlockTargetCache' = threads[t].pending.refBlockTargetCache
    /\ threads' = [threads EXCEPT ![t].pc = "store_height"]
    /\ UNCHANGED <<chain, net, pindexReferenceBlocks, nTargetCacheHeight, nTargetCacheAlgo,
                   script, calls, cs_target_cache>>

\* line 316 or 328: nTargetCacheHeight = ..
ThreadStoreHeight(t) ==
    /\ Running(t) /\ threads[t].pc = "store_height"
    /\ nTargetCacheHeight' = threads[t].pending.nTargetCacheHeight
    /\ threads' = [threads EXCEPT ![t].pc = "store_algo"]
    /\ UNCHANGED <<chain, net, pindexReferenceBlocks, refBlockTargetCache, nTargetCacheAlgo,
                   script, calls, cs_target_cache>>

\* line 317 or 329: nTargetCacheAlgo = algo; below the window line 332 follows
ThreadStoreAlgo(t) ==
    /\ Running(t) /\ threads[t].pc = "store_algo"
    /\ nTargetCacheAlgo' = threads[t].pending.nTargetCacheAlgo
    /\ threads' = [threads EXCEPT ![t].pc = IF threads[t].fAveraged THEN "unlock" ELSE "read"]
    /\ UNCHANGED <<chain, net, pindexReferenceBlocks, refBlockTargetCache, nTargetCacheHeight,
                   script, calls, cs_target_cache>>

\* line 321 or 332: refBlockTarget = refBlockTargetCache
ThreadRead(t) ==
    /\ Running(t) /\ threads[t].pc = "read"
    /\ threads' = [threads EXCEPT ![t].pc = "unlock",
                                  ![t].refBlockTarget = refBlockTargetCache,
                                  ![t].fTorn = threads[t].fTorn \/ Torn(t)]
    /\ UNCHANGED <<chain, net, pindexReferenceBlocks, refBlockTargetCache,
                   nTargetCacheHeight, nTargetCacheAlgo, script, calls, cs_target_cache>>

\* line 336: the scope of the lock ends
ThreadUnlock(t) ==
    /\ Running(t) /\ threads[t].pc = "unlock"
    /\ cs_target_cache' = 0
    /\ threads' = [threads EXCEPT ![t].pc = "scale", ![t].after = KeptStatics]
    /\ UNCHANGED <<chain, net, pindexReferenceBlocks, refBlockTargetCache,
                   nTargetCacheHeight, nTargetCacheAlgo, script, calls>>

\* lines 339-404: the target is scaled and returned
ThreadScaled(t, r) ==
    threads' = [threads EXCEPT ![t].pc = "done", ![t].ret = r.ret, ![t].fThrow = r.fThrow]

ThreadReturn(t) ==
    /\ Running(t) /\ threads[t].pc = "scale"
    /\ ThreadScaled(t, ASERTRetarget(Section(threads[t].refBlockTarget, threads[t].fFromCache,
                                             threads[t].fAveraged, 0, FALSE, KeptStatics),
                                     threads[t].dividend, pindexReferenceBlocks, ThreadLimit(t),
                                     Params(net)))
    /\ UNCHANGED <<chain, net, pindexReferenceBlocks, refBlockTargetCache,
                   nTargetCacheHeight, nTargetCacheAlgo, script, calls, cs_target_cache>>

NextThreads ==
    \/ CreateNewBlock
    \/ \E t \in ThreadIds : ThreadCall(t)
    \/ \E t \in ThreadIds : ThreadLock(t)
    \/ \E t \in ThreadIds : ThreadTest(t)
    \/ \E t \in ThreadIds : ThreadStoreValue(t)
    \/ \E t \in ThreadIds : ThreadStoreHeight(t)
    \/ \E t \in ThreadIds : ThreadStoreAlgo(t)
    \/ \E t \in ThreadIds : ThreadRead(t)
    \/ \E t \in ThreadIds : ThreadUnlock(t)
    \/ \E t \in ThreadIds : ThreadReturn(t)

SpecThreads == InitThreads /\ [][NextThreads]_vars

(***************************************************************************)
(* Calls of CBlockHeader::IsProofOfStake and IsProofOfWork                 *)
(***************************************************************************)
\* nVersion as the 32-bit word read as int32 (the flag bits 4..7 are the
\* negative values): each value of the three flag bits over low parts on
\* both sides of FIRST_FORK_VERSION
HeaderVersions ==
    { f * 2^29 + low : f \in (-4)..3, low \in {0, 1, 4, 5, 6, 2^29 - 1} }
HeaderNonces == {0, 1, 2, 2147483647}

InitHeader ==
    /\ net = "main"
    /\ chain = <<GenesisIndex(Params(net))>>
    /\ NoStatics
    /\ script = <<Ask>>
    /\ calls = <<>>
    /\ NoThreads

CallHeaderType ==
    /\ Asked
    /\ \E nVersion \in HeaderVersions, nNonce \in HeaderNonces :
          calls' = Append(calls,
                     [op |-> "HeaderType", nVersion |-> nVersion, nNonce |-> nNonce,
                      fProofOfStake |-> IsProofOfStake([nVersion |-> nVersion, nNonce |-> nNonce]),
                      fProofOfWork |-> IsProofOfWork([nVersion |-> nVersion, nNonce |-> nNonce])])
    /\ script' = Tail(script)
    /\ UNCHANGED <<chain, net, pindexReferenceBlocks, refBlockTargetCache,
                   nTargetCacheHeight, nTargetCacheAlgo, cs_target_cache, threads>>

NextHeader == CallHeaderType

SpecHeader == InitHeader /\ [][NextHeader]_vars

(***************************************************************************)
(* A regtest chain far ahead of its schedule: proof-of-work blocks one     *)
(* second apart (600 s is the schedule), all at the ceiling as             *)
(* GetNextWorkRequired gives them under fPowNoRetargeting, and several     *)
(* blocks on the last of them that differ in their time only.  Two calls   *)
(* of AverageTargetASERT with a miner's header on these.                   *)
(***************************************************************************)
\* how far ahead of schedule the chains are, in target timespans
AheadTimespans == {100, 256, 512}

\* the number of blocks one second apart that puts the next proof-of-work
\* block k timespans ahead: each block gains 600 - 1 seconds
AheadLength(k, params) == (k * params.nPowTargetTimespan + 598) \div 599

\* the times of the last blocks after their common predecessor
AheadLastTimes == {1, 600, 3600, 2 * 3600, 4 * 3600, 40 * 3600}

AheadBlock(pprev, nHeight, nTime, params) ==
    [pprev |-> pprev, nHeight |-> nHeight, nTime |-> nTime,
     nBits |-> GetCompactBase256(PowLimit(params, ALGO_POW_SHA256)),
     nVersion |-> ComputeBlockVersion(FALSE), nNonce |-> 1,
     nHeightPoS |-> 0, nHeightPoW |-> nHeight]

\* the genesis block, n - 1 blocks one second apart, and the n-th blocks
AheadChain(n, params) ==
    <<GenesisIndex(params)>>
        \o [i \in 1..(n - 1) |-> AheadBlock(i, i, GenesisTime + i, params)]
        \o [j \in 1..Cardinality(AheadLastTimes) |->
               AheadBlock(n, n,
                          GenesisTime + n - 1
                              + (CHOOSE dt \in AheadLastTimes :
                                    Cardinality({ d \in AheadLastTimes : d < dt }) = j - 1),
                          params)]

InitAhead ==
    /\ net = "regtest"
    /\ chain \in { AheadChain(AheadLength(k, Params(net)), Params(net)) : k \in AheadTimespans }
    /\ NoStatics
    /\ script = <<AskMiner(600), AskMiner(600)>>
    /\ calls = <<>>
    /\ NoThreads

NextAhead == CallAverageTargetASERT

SpecAhead == InitAhead /\ [][NextAhead]_vars

(***************************************************************************)
(* Branches of one index that hold the same proof-of-work blocks (same     *)
(* times, built by CreateNewBlock) with and without proof-of-stake blocks  *)
(* among or after them, and three calls of the two retarget functions on   *)
(* their tips.  Proof-of-stake blocks stand on the 16 s grid.              *)
(***************************************************************************)
\* mainnet, past the averaging window W of proof-of-work: branch A holds W
\* proof-of-work blocks; branch B parts after the block W - 3 and holds the
\* last three with two proof-of-stake blocks among them; branch C parts
\* after the block W - 1 and holds the last one and two proof-of-stake
\* blocks after it
WindowIsolationScript(W) ==
    <<PoW(600), PoW(590)>> \o Rep(PoW(600), W - 2)
        \o <<On(W - 2, PoS(18)), PoW(582), PoS(10), PoW(590), PoW(600)>>
        \o <<On(W, PoW(600)), PoS(10), PoS(80)>>
        \o Rep(AskMiner(600), 3)

\* the first blocks of a chain: three proof-of-work blocks, alone and with
\* two proof-of-stake blocks among them
EarlyIsolationScript ==
    <<PoW(600), PoW(590), PoW(610)>>
        \o <<On(1, PoS(80)), PoW(520), PoS(24), PoW(566), PoW(610)>>
        \o Rep(AskMiner(600), 3)

InitIsolation ==
    /\ net = "main"
    /\ chain = <<GenesisIndex(Params(net))>>
    /\ NoStatics
    /\ script \in { WindowIsolationScript(TargetsToAverage(NewHeader(FALSE, 0), Params(net))),
                     EarlyIsolationScript }
    /\ calls = <<>>
    /\ NoThreads

NextIsolation ==
    \/ CreateNewBlock
    \/ CallWeightedTargetExponentialMovingAverage
    \/ CallAverageTargetASERT

SpecIsolation == InitIsolation /\ [][NextIsolation]_vars
(***************************************************************************)
(* Properties of CheckProofOfWork (under SpecPoW)                          *)
(***************************************************************************)
Checks == { calls[i] : i \in { j \in DOMAIN calls : calls[j].op = "CheckProofOfWork" } }

\* the ceiling the claims name for an algorithm tag: powLimit of the
\* algorithm, the PoW-SHA256 ceiling for -1
CeilingOf(algo) ==
    PowLimit(Params(net), IF algo = ALGO_POS THEN ALGO_POS ELSE ALGO_POW_SHA256)

\* nBits decodes to a positive, non-overflowing target
DecodesToTarget(nBits) ==
    /\ ~SetCompactBase256(nBits).fNegative
    /\ ~SetCompactBase256(nBits).fOverflow
    /\ ~BnIsZero(DecodeCompact(nBits))

\* C1: CheckProofOfWork returns false, whatever the hash, when nBits decodes
\* with the negative or the overflow flag, or to zero, or to a target above
\* the ceiling of the algorithm (the PoW-SHA256 ceiling for -1), or when algo
\* is below -1 or at least ALGO_COUNT.
C1_RejectsOutOfRange ==
    \A c \in Checks :
        (\/ ~DecodesToTarget(c.nBits)
         \/ c.algo < -1
         \/ c.algo >= ALGO_COUNT
         \/ BnGt(DecodeCompact(c.nBits), CeilingOf(c.algo)))
        => ~c.ok

\* an overflowing nBits whose truncated value is a positive target under the
\* ceiling, with a hash below it, for the proof-of-work algorithm: rejected
C1_Witness ==
    \E c \in Checks :
        /\ SetCompactBase256(c.nBits).fOverflow
        /\ ~BnIsZero(DecodeCompact(c.nBits))
        /\ BnLeq(DecodeCompact(c.nBits), CeilingOf(c.algo))
        /\ BnLeq(c.hash, DecodeCompact(c.nBits))
        /\ c.algo = ALGO_POW_SHA256
        /\ ~c.ok

\* C6 as claimed: for algo ALGO_POS or ALGO_POW_SHA256 and nBits decoding to
\* a positive, non-overflowing target not above powLimit[algo],
\* CheckProofOfWork returns true exactly when hash <= target.
C6_BothAlgorithms ==
    \A c \in Checks :
        (/\ c.algo \in {ALGO_POS, ALGO_POW_SHA256}
         /\ DecodesToTarget(c.nBits)
         /\ BnLeq(DecodeCompact(c.nBits), CeilingOf(c.algo)))
        => (c.ok <=> BnLeq(c.hash, DecodeCompact(c.nBits)))

\* C6 as the code has it: for algo ALGO_POW_SHA256 or -1 and nBits decoding
\* to a positive, non-overflowing target not above the PoW-SHA256 ceiling,
\* CheckProofOfWork returns true exactly when hash <= target; for ALGO_POS
\* it returns false whatever nBits and the hash.
C6_ProofOfWorkOnly ==
    \A c \in Checks :
        /\ (/\ c.algo \in {-1, ALGO_POW_SHA256}
            /\ DecodesToTarget(c.nBits)
            /\ BnLeq(DecodeCompact(c.nBits), CeilingOf(c.algo)))
           => (c.ok <=> BnLeq(c.hash, DecodeCompact(c.nBits)))
        /\ c.algo = ALGO_POS => ~c.ok

\* a hash equal to the target is accepted for ALGO_POW_SHA256
C6_Witness ==
    \E c \in Checks :
        /\ c.algo = ALGO_POW_SHA256
        /\ DecodesToTarget(c.nBits)
        /\ c.hash = DecodeCompact(c.nBits)
        /\ c.ok

\* C7: CheckProofOfWork returns a boolean for every nBits, hash and algo,
\* and reads params.powLimit only at an index in 0..ALGO_COUNT-1.
C7_TotalAndInBounds ==
    \A c \in Checks :
        /\ c.ok \in BOOLEAN
        /\ c.fRead => (c.index >= 0 /\ c.index < ALGO_COUNT)

\* a valid nBits with an algo of at least ALGO_COUNT: rejected before the
\* ceiling is looked up
C7_Witness ==
    \E c \in Checks :
        /\ c.algo >= ALGO_COUNT
        /\ DecodesToTarget(c.nBits)
        /\ ~c.fRead
        /\ ~c.ok
(***************************************************************************)
(* Properties of the target selection (under Spec and SpecFork)            *)
(***************************************************************************)
\* C3: GetNextWorkRequired is a function of (pindexLast, pblock, params)
\* alone: two calls with the same index entry and the same header return the
\* same value, whatever was evaluated in between, other branches included.
C3_SameInputsSameResult ==
    \A i, j \in DOMAIN calls :
        (/\ calls[i].op = "GetNextWorkRequired"
         /\ calls[j].op = "GetNextWorkRequired"
         /\ calls[i].pindexLast = calls[j].pindexLast
         /\ calls[i].pblock = calls[j].pblock)
        => calls[i].ret = calls[j].ret

TargetCalls(op) == { calls[i] : i \in { j \in DOMAIN calls : calls[j].op = op } }

RetargetCalls ==
    TargetCalls("AverageTargetASERT") \cup TargetCalls("WeightedTargetExponentialMovingAverage")

\* the ceiling of the candidate's algorithm: by its tag, by its kind
\* (proof-of-stake or not) when the tag names no algorithm
CandidateCeiling(pblock) ==
    PowLimit(Params(net),
             IF GetAlgoType(pblock.nVersion) \in {ALGO_POS, ALGO_POW_SHA256}
             THEN GetAlgoType(pblock.nVersion)
             ELSE IF IsProofOfStake(pblock) THEN ALGO_POS ELSE ALGO_POW_SHA256)

\* C2: the compact value AverageTargetASERT and
\* WeightedTargetExponentialMovingAverage return decodes to a target T with
\* 0 < T <= powLimit of the candidate's algorithm.
C2_WithinCeiling ==
    \A c \in RetargetCalls :
        /\ ~c.fThrow
        /\ DecodesToTarget(c.ret)
        /\ BnLeq(DecodeCompact(c.ret), CandidateCeiling(c.pblock))

\* a chain behind its schedule: the scaled reference target is above the
\* ceiling and AverageTargetASERT returns the ceiling
C2_Witness ==
    \E c \in TargetCalls("AverageTargetASERT") :
        /\ c.path = "asert"
        /\ c.dividend > 0
        /\ ~BnGt(c.refBlockTarget, CandidateCeiling(c.pblock))
        /\ c.ret = GetCompactBase256(CandidateCeiling(c.pblock))

\* the entry p of the index has the algorithm of the candidate
HasAlgorithmOf(p, pblock) ==
    IF GetAlgoType(pblock.nVersion) = -1
    THEN IndexIsProofOfStake(p) = IsProofOfStake(pblock)
    ELSE IndexAlgo(p) = GetAlgoType(pblock.nVersion)

\* the blocks of the candidate's algorithm from p back, the last one first;
\* the genesis block is no block of an algorithm
OwnTrack(p, pblock) ==
    Loop(LAMBDA st :
            IF st.p = 0 \/ chain[st.p].pprev = 0 THEN st
            ELSE [p |-> chain[st.p].pprev,
                  track |-> IF HasAlgorithmOf(st.p, pblock) THEN Append(st.track, st.p)
                            ELSE st.track],
         [p |-> p, track |-> <<>>], Len(chain) + 1).track

\* the same, closed by the genesis block
TrackFromGenesis(p, pblock) == OwnTrack(p, pblock) \o <<1>>

\* every block of the track follows the one before it by exactly nSpacing
SteadyAt(track, nSpacing) ==
    \A k \in 1..(Len(track) - 1) :
        chain[track[k]].nTime - chain[track[k + 1]].nTime = nSpacing

\* the ideal spacing of the candidate's algorithm
IdealSpacing(pblock) == IF IsProofOfStake(pblock) THEN Params(net).nPowTargetSpacing ELSE 10 * 60

\* the reference target of an AverageTargetASERT call: the one it scaled,
\* the target of the genesis block when it returned before that
ReferenceTargetOf(c) ==
    IF c.path = "asert" THEN c.refBlockTarget ELSE DecodeCompact(chain[1].nBits)

\* the compact value of a target under the ceiling of the candidate
CeilingCapped(bn, pblock) ==
    IF BnGt(bn, CandidateCeiling(pblock)) THEN GetCompactBase256(CandidateCeiling(pblock))
    ELSE GetCompactBase256(bn)

C8_NullPrevReturnsCeiling ==
    \A i \in DOMAIN calls :
        calls[i].pindexLast = 0
        => /\ ~calls[i].fThrow
           /\ calls[i].ret
                  = GetCompactBase256(PowLimit(Params(net),
                                               IF IsProofOfStake(calls[i].pblock)
                                               THEN ALGO_POS ELSE ALGO_POW_SHA256))

\* the calls of GetNextWorkRequired the special difficulty rule applies to
RelaxedCalls ==
    { c \in TargetCalls("GetNextWorkRequired") :
        /\ c.pindexLast # 0
        /\ Params(net).fPowAllowMinDifficultyBlocks
        /\ ~Params(net).fPowNoRetargeting
        /\ GetAlgoType(c.pblock.nVersion) # -1 }

\* the last block of the candidate's algorithm (the genesis block without one)
LastOwn(c) == Head(TrackFromGenesis(c.pindexLast, c.pblock))

MinDifficultyBits(c) == GetCompactBase256(CandidateCeiling(c.pblock)) - 1

\* C9 as claimed: a candidate more than twice the target spacing after the
\* last block of its algorithm gets compact(powLimit[algo]) - 1 from
\* GetNextWorkRequired, at every chain height.
C9_TwiceTheSpacing ==
    \A c \in RelaxedCalls :
        (/\ OwnTrack(c.pindexLast, c.pblock) # <<>>
         /\ c.pblock.nTime > chain[LastOwn(c)].nTime + 2 * Params(net).nPowTargetSpacing)
        => c.ret = MinDifficultyBits(c)

\* C9 as the code has it: GetNextWorkRequired applies the relaxation, and
\* returns compact(powLimit[algo]) - 1, exactly when the candidate is more
\* than 30 minutes after the last block of its algorithm and that block is
\* above height 10.
C9_ThirtyMinutesAboveHeightTen ==
    \A c \in RelaxedCalls :
        /\ c.path = "mindifficulty"
              <=> (/\ chain[LastOwn(c)].nHeight > 10
                   /\ c.pblock.nTime > chain[LastOwn(c)].nTime + 30 * 60)
        /\ c.path = "mindifficulty" => c.ret = MinDifficultyBits(c)

C9_Witness ==
    \E c \in RelaxedCalls :
        /\ chain[LastOwn(c)].nHeight > 10
        /\ c.pblock.nTime > chain[LastOwn(c)].nTime + 30 * 60
        /\ c.ret = MinDifficultyBits(c)

\* the calls whose candidate does not qualify for the relaxation while the
\* last block of its algorithm is a min-difficulty block
WalkBackCalls ==
    { c \in RelaxedCalls :
        /\ OwnTrack(c.pindexLast, c.pblock) # <<>>
        /\ ~(/\ chain[LastOwn(c)].nHeight > 10
             /\ c.pblock.nTime > chain[LastOwn(c)].nTime + 30 * 60)
        /\ chain[LastOwn(c)].nBits = MinDifficultyBits(c) }

\* the positions in the track of the blocks that are no min-difficulty blocks
NonMinPositions(c) ==
    { k \in DOMAIN OwnTrack(c.pindexLast, c.pblock) :
        chain[OwnTrack(c.pindexLast, c.pblock)[k]].nBits # MinDifficultyBits(c) }

FirstNonMin(c) == CHOOSE k \in NonMinPositions(c) : \A m \in NonMinPositions(c) : k <= m

\* C10 as claimed: for a candidate that does not qualify for the relaxation
\* (not even by twice the target spacing), GetNextWorkRequired returns the
\* nBits of the most recent earlier block of the candidate's algorithm that
\* is no min-difficulty block.
C10_LastNonMinDifficulty ==
    \A c \in WalkBackCalls :
        (/\ c.pblock.nTime <= chain[LastOwn(c)].nTime + 2 * Params(net).nPowTargetSpacing
         /\ NonMinPositions(c) # {})
        => c.ret = chain[OwnTrack(c.pindexLast, c.pblock)[FirstNonMin(c)]].nBits

\* the block GetNextWorkRequired takes nBits from, 0 when it takes none:
\* with B the most recent block of the algorithm that is no min-difficulty
\* block and A the block of the algorithm before B, it is A when A is above
\* height 10 and no min-difficulty block, B when A is above height 10 and a
\* min-difficulty block, and none otherwise
WalkBackBlock(c, track, k) ==
    IF k + 1 > Len(track) \/ chain[track[k + 1]].nHeight <= 10 THEN 0
    ELSE IF chain[track[k + 1]].nBits # MinDifficultyBits(c) THEN track[k + 1]
    ELSE track[k]

ExpectedSource(c) ==
    IF NonMinPositions(c) = {} THEN 0
    ELSE WalkBackBlock(c, OwnTrack(c.pindexLast, c.pblock), FirstNonMin(c))

\* C10 as the code has it: the value comes from the block of the algorithm
\* before the most recent one that is no min-difficulty block, from that
\* most recent one when the block before it is a min-difficulty block, and
\* from AverageTargetASERT when the block before it is at height 10 or
\* below or does not exist; the source is never a min-difficulty block nor
\* a block of another algorithm.
C10_BlockBeforeLastNonMinDifficulty ==
    \A c \in WalkBackCalls :
        /\ c.source = ExpectedSource(c)
        /\ c.source # 0
              => /\ c.path = "walkback"
                 /\ c.ret = chain[c.source].nBits
                 /\ c.ret # MinDifficultyBits(c)
                 /\ HasAlgorithmOf(c.source, c.pblock)
        /\ c.source = 0 => c.path \in {"asert", "bootstrap"}

\* the value is taken from the block before the last non-min-difficulty one
C10_Witness ==
    \E c \in WalkBackCalls :
        /\ c.path = "walkback"
        /\ NonMinPositions(c) # {}
        /\ c.source = OwnTrack(c.pindexLast, c.pblock)[FirstNonMin(c) + 1]
        /\ c.ret # chain[OwnTrack(c.pindexLast, c.pblock)[FirstNonMin(c)]].nBits

\* the timestamps of the blocks of the algorithm of p, from p back
RECURSIVE OwnTimes(_, _)
OwnTimes(p, q) ==
    IF p = 0 \/ chain[p].pprev = 0 THEN <<>>
    ELSE (IF IndexAlgo(p) = IndexAlgo(q) THEN <<chain[p].nTime>> ELSE <<>>)
             \o OwnTimes(chain[p].pprev, q)

\* C4: the target GetNextWorkRequired assigns to a block depends on the
\* blocks of its own algorithm only: two blocks of one algorithm with the
\* same blocks of that algorithm behind them (same timestamps, same order)
\* carry the same nBits, whatever blocks of the other algorithm lie between.
C4_AlgorithmIsolation ==
    \A p, q \in 2..Len(chain) :
        (IndexAlgo(p) = IndexAlgo(q) /\ OwnTimes(p, p) = OwnTimes(q, q))
        => chain[p].nBits = chain[q].nBits

(***************************************************************************)
(* Properties of CalculateNextWorkRequired (under SpecRetarget)            *)
(***************************************************************************)
Retargets == TargetCalls("CalculateNextWorkRequired")

MeasuredTimespan(c) == GetBlockTime(c.pindexLast) - c.nFirstBlockTime

\* C11: CalculateNextWorkRequired never returns a target above the PoW
\* ceiling: for every target a block of the index carries and every
\* first-block time, however large the measured timespan, the result decodes
\* to a non-negative, non-overflowing value <= powLimit[ALGO_POW_SHA256].
C11_NeverAboveCeiling ==
    \A c \in Retargets :
        /\ ~SetCompactBase256(c.ret).fNegative
        /\ ~SetCompactBase256(c.ret).fOverflow
        /\ BnLeq(DecodeCompact(c.ret), PowLimit(Params(net), ALGO_POW_SHA256))

\* a block at the ceiling measured over more than four timespans, with
\* retargeting enabled: the quadrupled target is cut back to the ceiling
C11_Witness ==
    \E c \in Retargets :
        /\ ~Params(net).fPowNoRetargeting
        /\ MeasuredTimespan(c) > 4 * Params(net).nPowTargetTimespan
        /\ chain[c.pindexLast].nBits = GetCompactBase256(PowLimit(Params(net), ALGO_POW_SHA256))
        /\ c.ret = chain[c.pindexLast].nBits

(***************************************************************************)
(* Properties of the target cache (under SpecCache)                        *)
(***************************************************************************)
\* the calls of AverageTargetASERT that reach the section under the lock
CacheCalls == { c \in TargetCalls("AverageTargetASERT") : c.path = "asert" }

CallAlgo(c) == GetAlgoType(c.pblock.nVersion)

\* the candidate's height among the blocks of its kind, the genesis counted
OwnHeight(c) == Len(TrackFromGenesis(c.pindexLast, c.pblock))

AveragingWindow(c) == (4 * Params(net).nPowTargetTimespan) \div IdealSpacing(c.pblock)

\* the window index of a call; -1 stands for a candidate below the first
\* window, for which the cached value is the target of the reference block
WindowIndex(c) ==
    IF OwnHeight(c) >= AveragingWindow(c) THEN OwnHeight(c) \div AveragingWindow(c) ELSE -1

CacheKeyOf(c) == <<CallAlgo(c), WindowIndex(c)>>

StoredKey(statics) == <<statics.nTargetCacheAlgo, statics.nTargetCacheHeight>>

\* the blocks whose targets enter the average: after OwnHeight % window
\* blocks of the track, the next window-many that are not min-difficulty
RECURSIVE WindowTargets(_, _, _, _)
WindowTargets(track, nSkip, nLeft, nMinDifficulty) ==
    IF track = <<>> \/ nLeft = 0 THEN <<>>
    ELSE IF nSkip > 0 THEN WindowTargets(Tail(track), nSkip - 1, nLeft, nMinDifficulty)
    ELSE IF chain[Head(track)].nBits = nMinDifficulty /\ Params(net).fPowAllowMinDifficultyBlocks
    THEN WindowTargets(Tail(track), 0, nLeft, nMinDifficulty)
    ELSE <<chain[Head(track)].nBits>> \o WindowTargets(Tail(track), 0, nLeft - 1, nMinDifficulty)

\* the sum of floor(target / n) over the entries of bits, taken value by
\* value of todo, the set of the values in bits
SumOfShares(bits, todo, n) ==
    Loop(LAMBDA st :
            IF st.todo = {} THEN st
            ELSE LET b == CHOOSE x \in st.todo : TRUE
                 IN  [todo |-> st.todo \ {b},
                      sum |-> BnAdd(BnMulSmall(BnDivSmall(DecodeCompact(b), n),
                                               Cardinality({ k \in DOMAIN bits : bits[k] = b }),
                                               W256),
                                    st.sum, W256)],
         [todo |-> todo, sum |-> <<>>], Cardinality(todo) + 1).sum

Average(bits, n) == SumOfShares(bits, { bits[k] : k \in DOMAIN bits }, n)

\* the reference target computed from the chain alone
FromChain(c) ==
    IF WindowIndex(c) = -1 THEN DecodeCompact(chain[1].nBits)
    ELSE Average(WindowTargets(TrackFromGenesis(c.pindexLast, c.pblock),
                               OwnHeight(c) % AveragingWindow(c), AveragingWindow(c),
                               MinDifficultyBits(c)),
                 AveragingWindow(c))

ReadFromCache(c) ==
    /\ c.fFromCache
    /\ c.refBlockTarget = c.before.refBlockTargetCache
    /\ c.after = c.before

Recomputed(c) ==
    /\ ~c.fFromCache
    /\ c.refBlockTarget = FromChain(c)

Overwritten(c) ==
    c.after = CacheStatics(c.refBlockTarget, WindowIndex(c), CallAlgo(c))

\* C12 as stated: the cached value is returned only when the stored key is
\* the call's (algorithm, window index) and the stored value is non-zero;
\* whenever the key differs the target is recomputed from the chain and
\* value, window index and algorithm are overwritten together.
C12_KeyedCache ==
    \A c \in CacheCalls :
        /\ c.fFromCache =>
              /\ StoredKey(c.before) = CacheKeyOf(c)
              /\ ~BnIsZero(c.before.refBlockTargetCache)
              /\ ReadFromCache(c)
        /\ StoredKey(c.before) # CacheKeyOf(c) => Recomputed(c) /\ Overwritten(c)

\* C12: the same for a known algorithm; a candidate with an unknown tag
\* never reads the cache, overwrites it (with algorithm -1) when it is at or
\* above the first window and leaves it untouched below.
C12_KeyedCacheKnownAlgorithm ==
    \A c \in CacheCalls :
        /\ c.fFromCache =>
              /\ StoredKey(c.before) = CacheKeyOf(c)
              /\ CallAlgo(c) # -1
              /\ ~BnIsZero(c.before.refBlockTargetCache)
              /\ ReadFromCache(c)
        /\ StoredKey(c.before) # CacheKeyOf(c) =>
              /\ Recomputed(c)
              /\ IF CallAlgo(c) = -1 /\ WindowIndex(c) = -1 THEN c.after = c.before
                 ELSE Overwritten(c)

\* a call served from the cache in a window, and a call in another window
\* than the stored one, which replaces the entry
C12_Witness ==
    \E c1, c2 \in CacheCalls :
        /\ c1.fFromCache /\ WindowIndex(c1) >= 1
        /\ c2.before.nTargetCacheHeight >= 1 /\ WindowIndex(c2) >= 1
        /\ c2.before.nTargetCacheHeight # WindowIndex(c2)
        /\ c2.before.nTargetCacheAlgo = CallAlgo(c2)
        /\ c2.after.nTargetCacheHeight = WindowIndex(c2)

\* C14: a candidate with an unknown algorithm tag never gets a reference
\* target read from the cache: it is the average recomputed from the chain
\* or the target of the reference block, whatever the cache holds.
C14_UnknownTagBypassesCache ==
    \A c \in CacheCalls : CallAlgo(c) = -1 => Recomputed(c)

\* an unknown-tag call in a window, made while the cache holds a non-zero
\* value under that very key (-1, window index), left by an earlier such call
C14_Witness ==
    \E c \in CacheCalls :
        /\ CallAlgo(c) = -1 /\ WindowIndex(c) >= 1
        /\ StoredKey(c.before) = CacheKeyOf(c)
        /\ ~BnIsZero(c.before.refBlockTargetCache)
        /\ ~c.fFromCache

(***************************************************************************)
(* Properties of the retarget arithmetic (under Spec and SpecDrift)        *)
(***************************************************************************)
\* the calls that reach the exponential retarget of AverageTargetASERT
ASERTCalls ==
    { c \in TargetCalls("AverageTargetASERT") \cup TargetCalls("GetNextWorkRequired") :
        c.path = "asert" }

Timespan == Params(net).nPowTargetTimespan

Magnitude(d) == IF d >= 0 THEN d ELSE -d

\* e and r of the drift D: D = sign(D) * (e * T + r) with 0 <= r < T
DriftExponent(c) == Magnitude(c.dividend) \div Timespan
DriftRemainder(c) == Magnitude(c.dividend) % Timespan

Times(a, b) == BnMul(a, b, W512)

\* 4 r^3 + 11 r^2 T + 35 r T^2 + 50 T^3 and 50 T^3 (below 2^64), 1 for r = 0
CubicP(r, T) ==
    IF r = 0 THEN <<1>>
    ELSE LET bnR == BnFromInt(r)
             bnT == BnFromInt(T)
         IN  BnAdd(BnAdd(BnMulSmall(Times(bnR, Times(bnR, bnR)), 4, W512),
                         BnMulSmall(Times(bnR, Times(bnR, bnT)), 11, W512), W512),
                   BnAdd(BnMulSmall(Times(bnR, Times(bnT, bnT)), 35, W512),
                         BnMulSmall(Times(bnT, Times(bnT, bnT)), 50, W512), W512), W512)

CubicQ(r, T) ==
    IF r = 0 THEN <<1>>
    ELSE BnMulSmall(Times(BnFromInt(T), Times(BnFromInt(T), BnFromInt(T))), 50, W512)

\* the number of bits of x * 2^e
ShiftedBits(x, e) == IF BnIsZero(x) THEN 0 ELSE BnBits(x) + e

\* C15: the numerator, the denominator and the product target x numerator
\* of AverageTargetASERT stay below 2^512 for any schedule drift.  Behind
\* schedule the numerator is 2^e * P, ahead of it the denominator is.
C15_NoWraparound ==
    \A c \in ASERTCalls :
        LET P == CubicP(DriftRemainder(c), Timespan)
            Q == CubicQ(DriftRemainder(c), Timespan)
        IN  IF c.dividend >= 0
            THEN /\ ShiftedBits(P, DriftExponent(c)) <= 512
                 /\ ShiftedBits(Times(c.refBlockTarget, P), DriftExponent(c)) <= 512
            ELSE /\ ShiftedBits(P, DriftExponent(c)) <= 512
                 /\ BnBits(Times(c.refBlockTarget, Q)) <= 512

\* the reference timestamp: one ideal spacing before the genesis block,
\* moved up to the stake time grid for a proof-of-stake candidate
ReferenceTimestamp(pblock) ==
    LET t == chain[1].nTime - IdealSpacing(pblock)
        grid == Params(net).nStakeTimestampMask + 1
    IN  IF IsProofOfStake(pblock) THEN ((t + grid - 1) \div grid) * grid ELSE t

\* D = (time of the last block of the algorithm - reference timestamp)
\*     - spacing * (blocks of the algorithm + 1)
Drift(c) ==
    chain[LastOwn(c)].nTime - ReferenceTimestamp(c.pblock)
        - IdealSpacing(c.pblock) * (Len(OwnTrack(c.pindexLast, c.pblock)) + 1)

\* floor(ref * 2^e * P / Q) for D >= 0 and floor(ref * Q / (2^e * P)) for
\* D < 0, or "above" when the value is certainly 2^256 or more: the bit
\* lengths decide the cases the 512-bit operators cannot compute exactly
ExactASERT(ref, D, T) ==
    LET e == Magnitude(D) \div T
        P == CubicP(Magnitude(D) % T, T)
        Q == CubicQ(Magnitude(D) % T, T)
    IN  IF D >= 0
        THEN IF ShiftedBits(Times(ref, P), e) > 257 + BnBits(Q)
             THEN [fAbove |-> TRUE, value |-> <<>>]
             ELSE [fAbove |-> FALSE, value |-> BnDiv(BnShl(Times(ref, P), e, W512), Q)]
        ELSE IF ShiftedBits(P, e) > BnBits(Times(ref, Q))
             THEN [fAbove |-> FALSE, value |-> <<>>]
             ELSE [fAbove |-> FALSE, value |-> BnDiv(Times(ref, Q), BnShl(P, e, W512))]

\* the rounded compact form, the ceiling for zero or a value above it
CeilingOrRounded(x, pblock) ==
    IF x.fAbove \/ BnIsZero(x.value) \/ BnGt(x.value, CandidateCeiling(pblock))
    THEN GetCompactBase256(CandidateCeiling(pblock))
    ELSE GetCompactRoundedBase256(x.value)

FormulaCalls(op) ==
    { c \in TargetCalls(op) : c.pindexLast # 0 /\ Len(OwnTrack(c.pindexLast, c.pblock)) >= 2 }

\* C18: with at least two earlier blocks of the candidate's algorithm,
\* AverageTargetASERT returns the rounded compact form of
\* floor(ref * 2^e * P / (50 T^3)) for D >= 0 and of
\* floor(ref * 50 T^3 / (2^|e| * P)) for D < 0 (no cubic factor for r = 0),
\* replaced by the ceiling when that value is zero or above the ceiling.
C18_ASERTFormula ==
    \A c \in FormulaCalls("AverageTargetASERT") :
        /\ ~c.fThrow
        /\ c.dividend = Drift(c)
        /\ c.ret = CeilingOrRounded(ExactASERT(c.refBlockTarget, Drift(c), Timespan), c.pblock)

\* a call ahead of schedule and a call more than a timespan behind it, both
\* with a fractional exponent and a result under the ceiling that differs
\* from the reference target
C18_Witness ==
    \E c1, c2 \in FormulaCalls("AverageTargetASERT") :
        /\ Drift(c1) < 0 /\ Magnitude(Drift(c1)) % Timespan # 0
        /\ Drift(c2) > Timespan /\ Drift(c2) % Timespan # 0
        /\ \A c \in {c1, c2} :
              /\ c.ret # GetCompactBase256(CandidateCeiling(c.pblock))
              /\ c.refBlockTarget # DecodeCompact(c.ret)
              /\ c.ret = CeilingOrRounded(ExactASERT(c.refBlockTarget, Drift(c), Timespan),
                                          c.pblock)

\* the time between the last two blocks of the candidate's algorithm
ActualSpacing(c) ==
    chain[OwnTrack(c.pindexLast, c.pblock)[1]].nTime
        - chain[OwnTrack(c.pindexLast, c.pblock)[2]].nTime

\* N = nPowTargetTimespan / (2 * spacing), the integer quotient
Interval(pblock) == Timespan \div (2 * IdealSpacing(pblock))

\* floor(prev_target * max(1, (N - 1) * spacing + actual_spacing) / (N * spacing))
ExactWTEMA(prev, N, spacing, actual) ==
    [fAbove |-> FALSE,
     value |-> BnDiv(Times(prev, BnFromInt(Max2(1, (N - 1) * spacing + actual))),
                     BnFromInt(N * spacing))]

\* C19: with at least two earlier blocks of the candidate's algorithm,
\* WeightedTargetExponentialMovingAverage returns the rounded compact form
\* of floor(prev_target * max(1, (N-1) * spacing + actual_spacing) / (N * spacing)),
\* replaced by the ceiling when that value is zero or above the ceiling.
C19_WTEMAFormula ==
    \A c \in FormulaCalls("WeightedTargetExponentialMovingAverage") :
        /\ ~c.fThrow
        /\ c.ret = CeilingOrRounded(
                       ExactWTEMA(DecodeCompact(chain[LastOwn(c)].nBits), Interval(c.pblock),
                                  IdealSpacing(c.pblock), ActualSpacing(c)),
                       c.pblock)

\* a call after a block earlier than its predecessor by more than (N-1)
\* spacings, where the factor is 1 / (N * spacing), and a call after a
\* block later than its predecessor; both results under the ceiling
C19_Witness ==
    \E c1, c2 \in FormulaCalls("WeightedTargetExponentialMovingAverage") :
        /\ (Interval(c1.pblock) - 1) * IdealSpacing(c1.pblock) + ActualSpacing(c1) < 0
        /\ ActualSpacing(c2) > 0
        /\ DecodeCompact(c2.ret) # DecodeCompact(chain[LastOwn(c2)].nBits)
        /\ \A c \in {c1, c2} : c.ret # GetCompactBase256(CandidateCeiling(c.pblock))

\* the calls for the first or the second block of an algorithm: no block of
\* it, or one, above the chain root
BootstrapCalls ==
    { c \in RetargetCalls : c.pindexLast # 0 /\ Len(OwnTrack(c.pindexLast, c.pblock)) <= 1 }

\* C20: for the first and the second block of an algorithm's history both
\* retarget functions return the compact ceiling of that algorithm, whatever
\* the timestamps and however many blocks of the other algorithm there are.
C20_BootstrapCeiling ==
    \A c \in BootstrapCalls :
        ~c.fThrow /\ c.ret = GetCompactBase256(CandidateCeiling(c.pblock))

\* a call for the second block of an algorithm whose first block came 16 s
\* after the genesis block, far ahead of schedule, with three blocks of the
\* other algorithm after it
C20_Witness ==
    \E c \in BootstrapCalls :
        /\ Len(OwnTrack(c.pindexLast, c.pblock)) = 1
        /\ chain[LastOwn(c)].nTime - chain[1].nTime < IdealSpacing(c.pblock)
        /\ chain[c.pindexLast].nHeight >= 4
        /\ c.op = "AverageTargetASERT"
        /\ c.ret = GetCompactBase256(CandidateCeiling(c.pblock))

(***************************************************************************)
(* Properties of CreateCoinStake (under SpecStake)                         *)
(***************************************************************************)
StakeCalls == { calls[k] : k \in { j \in 1..Len(calls) : calls[j].op = "CreateCoinStake" } }
Indices(s) == { s[j] : j \in 1..Len(s) }
Origin(c, i) == ChainActiveAt(c.setCoins[i].nHeight)
OldEnough(c, i) == chain[Origin(c, i)].nTime + Params(net).nStakeMinAge <= c.nTime
DeepEnough(c, i) == c.nHeight - chain[Origin(c, i)].nHeight >= Params(net).nStakeMinDepth
OnSlot(c) == c.nTime % (Params(net).nStakeTimestampMask + 1) = 0
AfterMedianTimePast(c) ==
    Cardinality({ p \in (Max2(1, c.pindexPrev - 10))..c.pindexPrev : chain[p].nTime < c.nTime }) >= 6
WithinFutureDrift(c) == net = "regtest" \/ c.nTime - c.nAdjustedTime <= 2 * 60 * 60

\* C16 as stated: the kernel hash of a candidate is evaluated only when the
\* five preconditions hold: age, depth, time slot, median time past, future drift
C16_AllBeforeHashing ==
    \A c \in StakeCalls : \A i \in Indices(c.hashed) :
        /\ OldEnough(c, i) /\ DeepEnough(c, i)
        /\ OnSlot(c) /\ AfterMedianTimePast(c) /\ WithinFutureDrift(c)

\* C16 as amended: the kernel hash of a candidate is evaluated only when
\* age, depth, time slot and median time past hold; the future drift is
\* tested after a kernel was found, and no coinstake is made past it
C16_FutureDriftAfterHashing ==
    \A c \in StakeCalls :
        /\ \A i \in Indices(c.hashed) :
              OldEnough(c, i) /\ DeepEnough(c, i) /\ OnSlot(c) /\ AfterMedianTimePast(c)
        /\ c.ret => WithinFutureDrift(c)

\* a mainnet search that passes over a candidate one block short of the
\* depth, hashes the next one, finds a kernel and drops it for the drift
C16_Witness ==
    \E c \in StakeCalls :
        /\ net = "main" /\ Len(c.setCoins) = 2
        /\ c.visited = <<1, 2>> /\ c.hashed = <<2>>
        /\ c.setCoins[1].fInView /\ Origin(c, 1) # 0 /\ ~DeepEnough(c, 1)
        /\ c.setCoins[2].fKernel /\ ~WithinFutureDrift(c) /\ ~c.ret

Found(c, i) == c.setCoins[i].fInView /\ Origin(c, i) # 0
FailsAgeOrDepth(c, i) == Found(c, i) /\ ~(OldEnough(c, i) /\ DeepEnough(c, i))
FailsTimestamp(c, i) ==
    /\ i \in Indices(c.hashed) /\ c.setCoins[i].fKernel
    /\ ~(OnSlot(c) /\ AfterMedianTimePast(c) /\ WithinFutureDrift(c))
LastVisited(c) == IF c.visited = <<>> THEN 0 ELSE c.visited[Len(c.visited)]
GoesOn(c, i) == i = Len(c.setCoins) \/ i + 1 \in Indices(c.visited)
RaisedAt(c, i) == c.fError /\ LastVisited(c) = i

\* C17 as stated: a candidate that fails the age, depth or timestamp
\* protocol check raises nothing and the search goes on with the next one
C17_NeverEndsSearch ==
    \A c \in StakeCalls : \A i \in Indices(c.visited) :
        (FailsAgeOrDepth(c, i) \/ FailsTimestamp(c, i)) => ~RaisedAt(c, i) /\ GoesOn(c, i)

\* C17 as amended: a candidate that fails age or depth raises nothing and
\* the search goes on with the next one; a found kernel that fails the
\* timestamp protocol raises nothing and ends the search, which answers
\* false with the remaining candidates untested
C17_TimestampEndsSearch ==
    \A c \in StakeCalls :
        /\ \A i \in Indices(c.visited) :
              /\ FailsAgeOrDepth(c, i) => ~RaisedAt(c, i) /\ GoesOn(c, i)
              /\ FailsTimestamp(c, i) =>
                    /\ ~c.fError /\ ~c.ret
                    /\ LastVisited(c) = i
                    /\ c.stop = "timestamp"
        /\ c.ret <=> c.stop = "kernel"

\* a mainnet search whose first candidate gives a kernel past the future
\* drift: the second candidate, old and deep enough, is never looked at
C17_Witness ==
    \E c \in StakeCalls :
        /\ net = "main" /\ Len(c.setCoins) = 2
        /\ FailsTimestamp(c, 1) /\ c.visited = <<1>>
        /\ Found(c, 2) /\ OldEnough(c, 2) /\ DeepEnough(c, 2) /\ c.setCoins[2].fKernel
        /\ ~c.ret /\ ~c.fError

(***************************************************************************)
(* Properties of the section under cs_target_cache (under SpecThreads)     *)
(***************************************************************************)
InSection(t) ==
    threads[t].pc \in {"test", "store_value", "store_height", "store_algo", "read", "unlock"}
Finished(t) == threads[t].pc = "done" /\ threads[t].order > 0
Turn(k) == CHOOSE t \in ThreadIds : threads[t].order = k

\* C13: at most one thread is inside the cache section; no thread reads the
\* statics between two stores of another; every finished call returns what
\* the call returns when run alone on the statics it found, it found the
\* statics the holder of the mutex before it left, and it leaves the statics
\* that call leaves
C13_AtomicCacheSection ==
    threads # <<>> =>
        /\ Cardinality({ t \in ThreadIds : InSection(t) }) <= 1
        /\ \A t \in ThreadIds : ~threads[t].fTorn
        /\ \A t \in ThreadIds : Finished(t) =>
              /\ threads[t].ret = threads[t].expected.ret
              /\ threads[t].fThrow = threads[t].expected.fThrow
              /\ threads[t].after = threads[t].expected.statics
        /\ \A t, u \in ThreadIds :
              (threads[t].order > 0 /\ threads[u].order = threads[t].order + 1
                    /\ threads[u].pc \notin {"lock", "test"})
                 => threads[u].before = threads[t].after

\* two calls have finished, a staker's that stored the reference target below
\* its window and a miner's that stored the average of its window, and the
\* second found the triple of the first
C13_Witness ==
    /\ threads # <<>>
    /\ \E t, u \in ThreadIds :
          /\ Finished(t) /\ Finished(u)
          /\ threads[t].order = 1 /\ threads[u].order = 2
          /\ IsProofOfStake(threads[t].pblock) /\ ~IsProofOfStake(threads[u].pblock)
          /\ threads[t].after.nTargetCacheHeight = -1
          /\ threads[u].before = threads[t].after
          /\ threads[u].after.nTargetCacheHeight = 1
          /\ threads[u].after.refBlockTargetCache # threads[t].after.refBlockTargetCache
          /\ threads[u].ret = threads[u].expected.ret

(***************************************************************************)
(* Properties of the header type (under SpecHeader)                        *)
(***************************************************************************)
HeaderCalls == { calls[k] : k \in { j \in 1..Len(calls) : calls[j].op = "HeaderType" } }

\* C30: every header is of exactly one type: exactly one of IsProofOfStake
\* and IsProofOfWork answers true
C30_ExactlyOneType ==
    \A c \in HeaderCalls : c.fProofOfStake # c.fProofOfWork


(***************************************************************************)
(* The interval retarget computed exactly (under SpecRetarget)             *)
(***************************************************************************)
\* A: the measured timespan within [T/4, 4T]
ClampedSpan(c) ==
    IF MeasuredTimespan(c) < Timespan \div 4 THEN Timespan \div 4
    ELSE IF MeasuredTimespan(c) > 4 * Timespan THEN 4 * Timespan
    ELSE MeasuredTimespan(c)

\* prev_target x A, in 512 bits
ExactProduct(c) == Times(DecodeCompact(chain[c.pindexLast].nBits), BnFromInt(ClampedSpan(c)))

\* min(ceiling, floor(prev_target x A / T))
ExactRetarget(c) ==
    IF BnGt(BnDiv(ExactProduct(c), BnFromInt(Timespan)), PowLimit(Params(net), ALGO_POW_SHA256))
    THEN PowLimit(Params(net), ALGO_POW_SHA256)
    ELSE BnDiv(ExactProduct(c), BnFromInt(Timespan))

\* C28: on every network whose parameters let CalculateNextWorkRequired
\* retarget, for every previous target up to the PoW ceiling the product
\* prev_target x A fits 256 bits and the function returns the compact form
\* of min(ceiling, floor(prev_target x A / nPowTargetTimespan)), A being the
\* measured timespan clamped to [T/4, 4T].
C28_ExactRetarget ==
    \A c \in Retargets :
        ~Params(net).fPowNoRetargeting
        => /\ BnBits(ExactProduct(c)) <= 256
           /\ c.ret = GetCompactBase256(ExactRetarget(c))

\* the largest product: a block at the PoW ceiling measured over more than
\* four timespans; the product has more than 249 bits
C28_Witness ==
    \E c \in Retargets :
        /\ ~Params(net).fPowNoRetargeting
        /\ chain[c.pindexLast].nBits = GetCompactBase256(PowLimit(Params(net), ALGO_POW_SHA256))
        /\ MeasuredTimespan(c) > 4 * Timespan
        /\ BnBits(ExactProduct(c)) > 249


(***************************************************************************)
(* The reward of a coinstake (under SpecStake)                             *)
(***************************************************************************)
\* C29: CreateCoinStake never returns true (kernel found, coinstake built
\* and signed) when the reward GetBlockSubsidy computed for the found
\* kernel is zero or negative.
C29_NoMintWithoutReward ==
    \A c \in StakeCalls :
        c.ret => c.setCoins[LastVisited(c)].nReward > 0


(***************************************************************************)
(* The number of targets in the rolling average (under SpecDrift)          *)
(***************************************************************************)
\* the calls of AverageTargetASERT that recomputed the rolling average
AveragingCalls == { c \in TargetCalls("AverageTargetASERT") : c.path = "asert" /\ c.fAveraged }

\* C25: whenever AverageTargetASERT recomputes the rolling average, exactly
\* nASERTBlockTargetsToAverage targets are summed; the loop never stops early
\* at the chain root, also when min-difficulty blocks of the window are
\* skipped and replaced by older blocks.
C25_FullWindowAveraged ==
    \A c \in AveragingCalls :
        c.nBlocksAveraged = TargetsToAverage(c.pblock, Params(net))


(***************************************************************************)
(* AverageTargetASERT far ahead of schedule (under SpecAhead)              *)
(***************************************************************************)
\* C27: AverageTargetASERT never divides by zero: whatever the schedule
\* drift, also 512 or more target timespans ahead, the 512-bit denominator
\* is non-zero when the quotient is computed and the function returns.
C27_NeverDividesByZero ==
    \A c \in TargetCalls("AverageTargetASERT") : ~c.fThrow


\* the calls of AverageTargetASERT that scaled a reference target and returned
ScaledCalls ==
    { c \in TargetCalls("AverageTargetASERT") : c.path = "asert" /\ ~c.fThrow }

\* the same candidate kind, per-algorithm block count and reference target
SameButTime(c1, c2) ==
    /\ c1.pblock.nVersion = c2.pblock.nVersion
    /\ c1.pblock.nNonce = c2.pblock.nNonce
    /\ Len(OwnTrack(c1.pindexLast, c1.pblock)) = Len(OwnTrack(c2.pindexLast, c2.pblock))
    /\ c1.refBlockTarget = c2.refBlockTarget

\* C26: with the reference target, the per-algorithm block count and the
\* parameters fixed, a later timestamp of the last block of the candidate's
\* algorithm never makes AverageTargetASERT return a smaller decoded target.
C26_MonotoneInTime ==
    \A c1, c2 \in ScaledCalls :
        (SameButTime(c1, c2) /\ chain[LastOwn(c1)].nTime <= chain[LastOwn(c2)].nTime)
        => BnLeq(DecodeCompact(c1.ret), DecodeCompact(c2.ret))


(***************************************************************************)
(* The min-difficulty marker (under SpecDrift)                             *)
(***************************************************************************)
\* the value GetNextWorkRequired reserves for the blocks of the algorithm of p
MarkerOf(p) ==
    GetCompactBase256(PowLimit(Params(net),
                               IF IndexAlgo(p) = -1 THEN ALGO_POW_SHA256 ELSE IndexAlgo(p))) - 1

\* the block of the algorithm of p before p, the genesis block without one
OwnBefore(p) ==
    Loop(LAMBDA q : IF chain[q].pprev # 0 /\ IndexAlgo(q) # IndexAlgo(p)
                    THEN chain[q].pprev ELSE q,
         chain[p].pprev, Len(chain))

\* the relaxation rule applied to the block p
RelaxationAssigned(p) ==
    /\ Params(net).fPowAllowMinDifficultyBlocks
    /\ ~Params(net).fPowNoRetargeting
    /\ IndexAlgo(p) # -1
    /\ chain[OwnBefore(p)].nHeight > 10
    /\ chain[p].nTime > chain[OwnBefore(p)].nTime + 30 * 60

\* C23: AverageTargetASERT never returns compact(powLimit[algo]) - 1, the
\* value GetNextWorkRequired reserves for relaxed blocks, and on a chain
\* whose nBits come from GetNextWorkRequired a block carries that value
\* only if the relaxation rule assigned it.
C23_MarkerUnambiguous ==
    /\ \A c \in TargetCalls("AverageTargetASERT") : ~c.fThrow => c.ret # MinDifficultyBits(c)
    /\ \A p \in 2..Len(chain) : chain[p].nBits = MarkerOf(p) => RelaxationAssigned(p)


(***************************************************************************)
(* The static reference blocks (under SpecCache)                           *)
(***************************************************************************)
\* the step is a call that got to the declaration of pindexReferenceBlocks
ReachesReference ==
    /\ Len(calls') = Len(calls) + 1
    /\ calls'[Len(calls')].path = "asert"

\* the root of the chain of the block p
RootOf(p) == Loop(LAMBDA q : IF chain[q].pprev # 0 THEN chain[q].pprev ELSE q, p, Len(chain))

\* C22: the reference block of each algorithm is computed once, by the
\* first call of AverageTargetASERT that reaches it: that call sets it to the
\* root of the chain it was given, and no later call, whatever its chain
\* tip, changes it.
C22_ReferenceComputedOnce ==
    [][/\ pindexReferenceBlocks # <<>> => pindexReferenceBlocks' = pindexReferenceBlocks
       /\ ReachesReference
            => /\ Len(pindexReferenceBlocks') = ALGO_COUNT
               /\ \A a \in 1..ALGO_COUNT :
                     pindexReferenceBlocks'[a] = RootOf(calls'[Len(calls')].pindexLast)
       /\ (pindexReferenceBlocks = <<>> /\ ~ReachesReference) => pindexReferenceBlocks' = <<>>]_vars

\* two calls on different chain tips got to the reference blocks
C22_Witness ==
    /\ pindexReferenceBlocks # <<>>
    /\ \E c1, c2 \in TargetCalls("AverageTargetASERT") :
          /\ c1.path = "asert" /\ c2.path = "asert"
          /\ c1.pindexLast # c2.pindexLast
          /\ chain[c1.pindexLast].nHeight # chain[c2.pindexLast].nHeight


(***************************************************************************)
(* Isolation of the algorithms in the retarget core (under SpecIsolation)  *)
(***************************************************************************)
\* the blocks of the candidate's algorithm behind a call: time and nBits of
\* each, the last one first
BlocksOf(track) == [k \in 1..Len(track) |-> <<chain[track[k]].nTime, chain[track[k]].nBits>>]

OwnBlocks(c) == BlocksOf(OwnTrack(c.pindexLast, c.pblock))

\* the blocks of the other algorithm behind a call
OthersBehind(c) ==
    Loop(LAMBDA st : IF st.p = 0 THEN st
                     ELSE [p |-> chain[st.p].pprev,
                           n |-> IF chain[st.p].pprev # 0 /\ ~HasAlgorithmOf(st.p, c.pblock)
                                 THEN st.n + 1 ELSE st.n],
         [p |-> c.pindexLast, n |-> 0], Len(chain) + 1).n

\* C21: the values AverageTargetASERT and
\* WeightedTargetExponentialMovingAverage return for candidates of one
\* algorithm depend on the chain root and the blocks of that algorithm
\* (times, nBits, count) only: two calls of one function for the same
\* algorithm with the same such blocks behind them return the same value,
\* whatever blocks of the other algorithm lie among them and whatever call
\* used the target cache before.
C21_RetargetIsolation ==
    \A c1, c2 \in RetargetCalls :
        (/\ c1.op = c2.op
         /\ c1.pblock.nVersion = c2.pblock.nVersion
         /\ c1.pblock.nNonce = c2.pblock.nNonce
         /\ OwnBlocks(c1) = OwnBlocks(c2))
        => c1.ret = c2.ret /\ c1.fThrow = c2.fThrow

\* past the averaging window: a call on the branch without and a call on a
\* branch with proof-of-stake blocks among the proof-of-work blocks, the
\* cache used by a proof-of-stake call in between
C21_Witness ==
    \E i, j, k \in DOMAIN calls :
        /\ i < j /\ j < k
        /\ calls[i].op = "AverageTargetASERT" /\ calls[k].op = "AverageTargetASERT"
        /\ calls[j].op = "AverageTargetASERT"
        /\ ~IsProofOfStake(calls[i].pblock) /\ ~IsProofOfStake(calls[k].pblock)
        /\ IsProofOfStake(calls[j].pblock) /\ calls[j].path = "asert"
        /\ OthersBehind(calls[i]) = 0 /\ OthersBehind(calls[k]) = 2
        /\ OwnBlocks(calls[i]) = OwnBlocks(calls[k])
        /\ Len(OwnBlocks(calls[i])) >= TargetsToAverage(calls[i].pblock, Params(net))
        /\ calls[k].fAveraged
        /\ calls[i].ret = calls[k].ret
        /\ calls[i].ret # GetCompactBase256(CandidateCeiling(calls[i].pblock))


(***************************************************************************)
(* The target of a block template (under SpecTemplate)                     *)
(***************************************************************************)
\* the templates CreateNewBlock hands to TestBlockValidity
HandedTemplates ==
    { calls[i] : i \in { j \in DOMAIN calls :
                            calls[j].op = "CreateNewBlock" /\ calls[j].pc = "handed" } }

\* C24: for every block template CreateNewBlock hands to TestBlockValidity,
\* proof-of-work or proof-of-stake, the header's nBits equals
\* GetNextWorkRequired(pindexPrev, header) on the header's final nTime, also
\* when CreateCoinStake moved the time up to the next time-slot boundary.
C24_TemplateTargetAgrees ==
    \A c \in HandedTemplates :
        c.nBits = GetNextWorkRequired(c.pindexPrev, NewHeader(c.fProofOfStake, c.nTime),
                                      Params(net)).ret

====
